---- MODULE Spec2Model ----
(***************************************************************************)
(* A model of src/edge.cpp (redner): edge extraction and merging in the    *)
(* EdgeSampler constructor, the PMF/CDF distribution builder, edge-tree    *)
(* descent, the data-parallel sampling passes and the secondary derivative *)
(* accumulator.  Each part has its own specification over the shared       *)
(* variables; a part that a specification does not exercise stays idle.    *)
(***************************************************************************)
EXTENDS Integers, Sequences, FiniteSets, TLC

VARIABLES
    pc,                 \* position of the modelled routine
    shapes,             \* EdgeSampler input: per shape, its triangle index list
    shape_id,           \* loop variable of the per-shape loop (0-based)
    edges,              \* Buffer<Edge> edges (0-based slots)
    edges_buffer,       \* scratch Buffer<Edge> edges_buffer
    current_num_edges,  \* running count of merged edges
    num_edges,          \* new_end - edges_buffer_begin of the last reduce
    edges_count,        \* edges.count
    use_edge_tree,      \* c_use_edge_tree of the build
    edge_geom,          \* per edge: what the geometric queries answer for it
    primary_edges_pmf,  \* Buffer<Real> primary_edges_pmf
    primary_edges_cdf,  \* Buffer<Real> primary_edges_cdf
    secondary_edges_pmf,\* Buffer<Real> secondary_edges_pmf (null unless built)
    secondary_edges_cdf,\* Buffer<Real> secondary_edges_cdf (null unless built)
    total_length,       \* total_length of the distribution being built
    edge_tree,          \* whether the EdgeTree has been built
    scene_edges,        \* edge-tree descent: the edges the trees are built over
    edge_tree_roots,    \* EdgeTreeRoots{cs_bvh_root, ncs_bvh_root}
    shading_point,      \* SurfacePoint p of the descent (position, shading normal)
    node,               \* node argument of the running sample_edge call
    sample,             \* Real sample of the running sample_edge call
    pmf,                \* Real &pmf of the descent
    sampled_edge_id,    \* value returned by sample_edge
    path,               \* the branches the descent has taken so far
    pass,               \* which parallel_for is running
    task_pc,            \* per task index: how far its operator() has got
    active_pixels,      \* const int *active_pixels
    samples,            \* per task: its PrimaryEdgeSample / SecondaryEdgeSample
    min_roughness,      \* const Real *min_roughness, per pixel
    num_total_dimensions, \* channel_info.num_total_dimensions
    buffers,            \* the output buffers of the sampling pass
    write_log,          \* which task index wrote which slot of which buffer
    edge_records,       \* accumulator input: per task, edge_record.edge.shape_id
    edge_contribs,      \* accumulator input: const Real *edge_contribs
    d_points,           \* SurfacePoint *d_points (the position component)
    d_points_init,      \* d_points when the pass started
    d_vertices,         \* DVertex *d_vertices
    loaded,             \* per task: the value its += has read
    task,               \* one task in detail: its index idx
    camera,             \* the camera of the scene (fisheye or not)
    edge_id,            \* the edge the task selected, -1 for none
    divisions,          \* the pmf values the task has divided by
    shading_isects,     \* the intersections of a pass: of the probe rays (primary), of the pixels (secondary)
    cause,              \* the early return the task took, "none" if it took none
    edge_view,          \* per edge: what the queries from the shading point answer
    edge_sample_weight, \* secondary task: the weight of the selection
    sample_id,          \* resampling: the loop counter
    edge_ids,           \* resampling: the candidates
    edge_weights,       \* resampling: their weights
    resample_cdf,       \* resampling: the running sum of the weights
    resample_id,        \* resampling: the candidate picked, -1 for none
    lb,                 \* root solve: the bracket
    ub,
    l,                  \* root solve: the iterate
    it,                 \* root solve: the loop counter
    trips,              \* how often the body of each loop has run
    locals              \* the local variables of a step of operator() looked at on its own

edgeVars == <<shapes, shape_id, edges, edges_buffer, current_num_edges,
              num_edges, edges_count>>

distVars == <<use_edge_tree, edge_geom, primary_edges_pmf, primary_edges_cdf,
              secondary_edges_pmf, secondary_edges_cdf, total_length, edge_tree>>

treeVars == <<scene_edges, edge_tree_roots, shading_point, node, sample, pmf,
              sampled_edge_id, path>>

taskVars == <<pass, task_pc, active_pixels>>

sampVars == <<samples, min_roughness, num_total_dimensions, buffers, write_log>>

accVars == <<edge_records, edge_contribs, d_points, d_points_init, d_vertices,
             loaded>>

primVars == <<task, camera, edge_id, divisions, shading_isects, cause>>

resampleVars == <<sample_id, edge_ids, edge_weights, resample_cdf, resample_id>>

solveVars == <<lb, ub, l, it>>

stepVars == <<primVars, edge_view, edge_sample_weight, resampleVars, solveVars, trips>>

passVars == <<treeVars, taskVars, sampVars, accVars, stepVars>>

calcVars == <<locals>>

vars == <<pc, edgeVars, distVars, passVars, calcVars>>

(***************************************************************************)
(* Bounds of the model.                                                    *)
(***************************************************************************)
MaxShapes == 2
MaxTotalTris == 3
MaxEdges == 3

\* Triangles the input meshes are drawn from: two triangles sharing edge
\* (0,1) with opposite orientation, a third one on the same edge (a
\* non-manifold fan), and one triangle with a repeated vertex index.
TriPool == { <<0, 1, 2>>, <<1, 0, 3>>, <<0, 1, 4>>, <<0, 0, 1>> }

\* The triangle lists of n triangles of a shape (no triangle listed twice).
TriLists(n) == { f \in [1..n -> TriPool] : \A i, j \in 1..n : f[i] = f[j] => i = j }

Min(a, b) == IF a < b THEN a ELSE b
Max(a, b) == IF a < b THEN b ELSE a

RECURSIVE SumLens(_)
SumLens(s) == IF s = <<>> THEN 0 ELSE Len(Head(s)) + SumLens(Tail(s))

\* All shape lists of exactly s shapes holding at most t triangles in total.
RECURSIVE ShapeListsOf(_, _)
ShapeListsOf(s, t) ==
    IF s = 0 THEN { <<>> }
    ELSE UNION { { <<first>> \o rest :
                     first \in TriLists(n),
                     rest \in ShapeListsOf(s - 1, t - n) } : n \in 0..t }

ShapeLists == UNION { ShapeListsOf(s, MaxTotalTris) : s \in 0..MaxShapes }

num_triangles(sid) == Len(shapes[sid + 1])
num_total_triangles == SumLens(shapes)

\* get_indices(shape, tri): the three vertex indices of a triangle.
get_indices(sid, tri) == shapes[sid + 1][tri + 1]

Edge(sid, v0, v1, f0, f1) ==
    [shape_id |-> sid, v0 |-> v0, v1 |-> v1, f0 |-> f0, f1 |-> f1]

\* Content of a buffer slot nothing has written yet.
NoEdge == Edge(-1, -1, -1, -1, -1)

\* edge_collector::operator()(idx) for the shape being processed.
edge_collector(sid, idx) ==
    LET ind == get_indices(sid, idx \div 3)
        a == IF idx % 3 = 0 THEN ind[1] ELSE IF idx % 3 = 1 THEN ind[2] ELSE ind[3]
        b == IF idx % 3 = 0 THEN ind[2] ELSE IF idx % 3 = 1 THEN ind[3] ELSE ind[1]
    IN  Edge(sid, Min(a, b), Max(a, b), idx \div 3, -1)

\* Mutation: a comparer that forgets the tie-break on v1.
edge_less_comparer_v0_only(e0, e1) == e0.v0 < e1.v0

edge_less_comparer(e0, e1) ==
    IF e0.v0 = e1.v0 THEN e0.v1 < e1.v1 ELSE e0.v0 < e1.v0

edge_equal_comparer(e0, e1) == e0.v0 = e1.v0 /\ e0.v1 = e1.v1

\* Mutation: a merger that drops the second record's face.
edge_merger_keep_first(e0, e1) == Edge(e0.shape_id, e0.v0, e0.v1, e0.f0, e0.f1)

edge_merger(e0, e1) == Edge(e0.shape_id, e0.v0, e0.v1, e0.f0, e1.f0)

\* The slots [from, from + n) of a buffer as a sequence.
Slice(buf, from, n) == [i \in 1..n |-> buf[from + i - 1]]

\* thrust::sort with a comparer is not stable: every arrangement of the
\* input in which no later element is less than an earlier one can result.
RECURSIVE SortedArrangements(_, _)
SortedArrangements(s, I) ==
    IF I = {} THEN { <<>> }
    ELSE UNION { { <<s[i]>> \o rest : rest \in SortedArrangements(s, I \ {i}) } :
                 i \in { k \in I : \A j \in I : ~edge_less_comparer(s[j], s[k]) } }

thrust_sort(s) == SortedArrangements(s, DOMAIN s)

\* Length of the run of consecutive equal keys that starts a sequence.
RECURSIVE RunLength(_)
RunLength(s) ==
    IF Len(s) <= 1 THEN Len(s)
    ELSE IF edge_equal_comparer(s[1], s[2]) THEN 1 + RunLength(Tail(s))
    ELSE 1

\* thrust::reduce_by_key may combine a run of equal keys in any grouping
\* that keeps the order of the elements (a parallel scan); the sequential
\* backend folds from the left.  All results the groupings can give:
RECURSIVE Reductions(_)
Reductions(run) ==
    IF Len(run) = 1 THEN { run[1] }
    ELSE UNION { { edge_merger(a, b) :
                     a \in Reductions(SubSeq(run, 1, k)),
                     b \in Reductions(SubSeq(run, k + 1, Len(run))) } :
                 k \in 1..(Len(run) - 1) }

\* The output sequences of reduce_by_key: one reduced value per run.  Keys
\* and values are written to the same output range, the values last.
RECURSIVE thrust_reduce_by_key(_)
thrust_reduce_by_key(s) ==
    IF s = <<>> THEN { <<>> }
    ELSE LET k == RunLength(s)
         IN  { <<r>> \o rest :
                 r \in Reductions(SubSeq(s, 1, k)),
                 rest \in thrust_reduce_by_key(SubSeq(s, k + 1, Len(s))) }

\* buf with the sequence s stored from slot `from` on.
Store(buf, from, s) ==
    [i \in DOMAIN buf |->
        IF i >= from /\ i < from + Len(s) THEN s[i - from + 1] ELSE buf[i]]

(***************************************************************************)
(* Real numbers.  A Real is a reduced fraction n/d with d > 0; d = 0 holds *)
(* the values a division by zero gives: 0/0 is NaN, 1/0 and -1/0 are the   *)
(* infinities.  Comparisons with NaN are false, as in the machine.         *)
(***************************************************************************)
Abs(x) == IF x < 0 THEN -x ELSE x
Sign(x) == IF x < 0 THEN -1 ELSE IF x = 0 THEN 0 ELSE 1

RECURSIVE GCD(_, _)
GCD(a, b) == IF b = 0 THEN a ELSE GCD(b, a % b)

RNorm(n, d) ==
    IF d = 0 THEN [n |-> Sign(n), d |-> 0]
    ELSE LET g == GCD(Abs(n), Abs(d))
         IN  [n |-> (Sign(d) * n) \div g, d |-> Abs(d) \div g]

RInt(k) == [n |-> k, d |-> 1]
NaN == [n |-> 0, d |-> 0]
IsNaN(a) == a.d = 0 /\ a.n = 0
IsFinite(a) == a.d > 0

RAdd(a, b) ==
    IF IsNaN(a) \/ IsNaN(b) THEN NaN
    ELSE IF a.d = 0 /\ b.d = 0 THEN (IF a.n = b.n THEN a ELSE NaN)
    ELSE IF a.d = 0 THEN a
    ELSE IF b.d = 0 THEN b
    ELSE LET g == GCD(a.d, b.d)
         IN  RNorm(a.n * (b.d \div g) + b.n * (a.d \div g), (a.d \div g) * b.d)

RNeg(a) == [n |-> -a.n, d |-> a.d]
RSub(a, b) == RAdd(a, RNeg(b))

RMul(a, b) ==
    IF IsNaN(a) \/ IsNaN(b) THEN NaN
    ELSE IF a.d = 0 \/ b.d = 0 THEN RNorm(Sign(a.n) * Sign(b.n), 0)
    ELSE LET g == GCD(Abs(a.n), b.d)
             h == GCD(Abs(b.n), a.d)
         IN  RNorm((a.n \div g) * (b.n \div h), (a.d \div h) * (b.d \div g))

RDiv(a, b) ==
    IF IsNaN(a) \/ IsNaN(b) THEN NaN
    ELSE IF b.d = 0 THEN (IF a.d = 0 THEN NaN ELSE RInt(0))
    ELSE IF a.d = 0 THEN RNorm(a.n * (IF b.n < 0 THEN -1 ELSE 1), 0)
    ELSE IF b.n = 0 THEN RNorm(a.n, 0)
    ELSE LET g == GCD(Abs(a.n), Abs(b.n))
             h == GCD(a.d, b.d)
         IN  RNorm((a.n \div g) * (b.d \div h), (a.d \div h) * (b.n \div g))

RLt(a, b) ==
    /\ ~IsNaN(a) /\ ~IsNaN(b)
    /\ IF a.d = 0 /\ b.d = 0 THEN a.n < b.n
       ELSE IF a.d = 0 \/ b.d = 0 THEN a.n * b.d < b.n * a.d
       ELSE LET g == GCD(a.d, b.d)
            IN  a.n * (b.d \div g) < b.n * (a.d \div g)
REq(a, b) == ~IsNaN(a) /\ ~IsNaN(b) /\ a = b
RLeq(a, b) == RLt(a, b) \/ REq(a, b)

(***************************************************************************)
(* EdgeSampler::EdgeSampler, the distributions over the merged edges.      *)
(***************************************************************************)
\* What the geometric queries of the weighters answer for an edge:
\* project(), clip_line(), is_silhouette() from the camera, the clipped
\* screen-space length, the length in space, the exterior dihedral angle.
EdgeGeom(proj, clip, silh, ss, len, dih) ==
    [project |-> proj, clip_line |-> clip, is_silhouette |-> silh,
     distance_ss |-> ss, distance |-> len, exterior_dihedral |-> dih]

\* Edges the scene is drawn from: two visible silhouette edges of different
\* length, an edge that is no silhouette from the camera and lies between
\* coplanar faces, an edge the camera cannot project, an edge clipped away
\* by the screen, and an edge of length zero.
GeomPool == { EdgeGeom(TRUE, TRUE, TRUE, 1, 1, 1),
              EdgeGeom(TRUE, TRUE, TRUE, 2, 3, 2),
              EdgeGeom(TRUE, TRUE, FALSE, 1, 2, 0),
              EdgeGeom(FALSE, TRUE, TRUE, 1, 1, 1),
              EdgeGeom(TRUE, FALSE, TRUE, 2, 2, 3),
              EdgeGeom(TRUE, TRUE, TRUE, 0, 0, 1) }

GeomLists == UNION { [0..(n - 1) -> GeomPool] : n \in 0..MaxEdges }

NumEdges == Cardinality(DOMAIN edge_geom)
EdgeIds == DOMAIN edge_geom

\* A buffer that has not been allocated.
NullBuffer == <<>>

\* Mutation: the weighter without the silhouette test.
primary_edge_weighter_any_edge(g) ==
    IF g.project /\ g.clip_line THEN RInt(g.distance_ss)
    ELSE RInt(0)

\* primary_edge_weighter::operator()
primary_edge_weighter(g) ==
    IF g.project /\ g.clip_line /\ g.is_silhouette THEN RInt(g.distance_ss)
    ELSE RInt(0)

\* secondary_edge_weighter::operator()
secondary_edge_weighter(g) == RMul(RInt(g.distance), RInt(g.exterior_dihedral))

\* Mutation: a reduction that leaves out the first element.
RECURSIVE thrust_reduce_skip_first(_, _)
thrust_reduce_skip_first(buf, n) ==
    IF n <= 1 THEN RInt(0) ELSE RAdd(thrust_reduce_skip_first(buf, n - 1), buf[n - 1])

\* thrust::reduce(begin, end, Real(0), plus) over the first n slots.
RECURSIVE thrust_reduce(_, _)
thrust_reduce(buf, n) ==
    IF n = 0 THEN RInt(0) ELSE RAdd(thrust_reduce(buf, n - 1), buf[n - 1])

\* thrust::transform(begin, end, constant_iterator(total), begin, divides)
thrust_divides(buf, total) == [i \in DOMAIN buf |-> RDiv(buf[i], total)]

\* Mutation: an inclusive scan.
thrust_inclusive_scan(buf) ==
    [i \in DOMAIN buf |-> thrust_reduce(buf, i + 1)]

\* thrust::transform_exclusive_scan(begin, end, out, identity, Real(0), plus)
thrust_exclusive_scan(buf) ==
    [i \in DOMAIN buf |-> thrust_reduce(buf, i)]

DistIdle ==
    /\ use_edge_tree = TRUE
    /\ edge_geom = <<>>
    /\ primary_edges_pmf = NullBuffer
    /\ primary_edges_cdf = NullBuffer
    /\ secondary_edges_pmf = NullBuffer
    /\ secondary_edges_cdf = NullBuffer
    /\ total_length = RInt(0)
    /\ edge_tree = FALSE


\* nullptr of a node pointer.
NullNode == [edge_id |-> -2]

\* The descent is not running.
TreeIdle ==
    /\ scene_edges = <<>>
    /\ edge_tree_roots = [cs_bvh_root |-> NullNode, ncs_bvh_root |-> NullNode]
    /\ shading_point = [position |-> <<0, 0, 0>>, n |-> <<0, 0, 1>>]
    /\ node = NullNode
    /\ sample = RInt(0)
    /\ pmf = RInt(0)
    /\ sampled_edge_id = -1
    /\ path = <<>>

\* No parallel_for is running.
TaskIdle ==
    /\ pass = "none"
    /\ task_pc = <<>>
    /\ active_pixels = <<>>

SampleIdle ==
    /\ samples = <<>>
    /\ min_roughness = <<>>
    /\ num_total_dimensions = 0
    /\ buffers = <<>>
    /\ write_log = {}

AccumIdle ==
    /\ edge_records = <<>>
    /\ edge_contribs = <<>>
    /\ d_points = <<>>
    /\ d_points_init = <<>>
    /\ d_vertices = <<>>
    /\ loaded = <<>>

\* The resampling loops are not running.
ResampleIdle ==
    /\ sample_id = 0
    /\ edge_ids = <<>>
    /\ edge_weights = <<>>
    /\ resample_cdf = <<>>
    /\ resample_id = -1

\* The root solve is not running.
SolveIdle ==
    /\ lb = RInt(0)
    /\ ub = RInt(0)
    /\ l = RInt(0)
    /\ it = 0

NoTrips == [first |-> 0, second |-> 0, solve |-> 0]

\* No secondary task is followed in detail.
SecondaryIdle ==
    /\ edge_view = <<>>
    /\ edge_sample_weight = RInt(0)
    /\ ResampleIdle
    /\ SolveIdle
    /\ trips = NoTrips

\* No task is followed in detail.
StepIdle ==
    /\ task = -1
    /\ camera = [fisheye |-> FALSE]
    /\ edge_id = -1
    /\ divisions = {}
    /\ shading_isects = <<>>
    /\ cause = "none"
    /\ SecondaryIdle

PassIdle ==
    /\ TreeIdle
    /\ TaskIdle
    /\ SampleIdle
    /\ AccumIdle
    /\ StepIdle

\* No step is looked at on its own.
CalcIdle == locals = <<>>

(***************************************************************************)
(* EdgeSampler::EdgeSampler, edge collection loop.                         *)
(***************************************************************************)
EdgeIdle ==
    /\ shapes = <<>>
    /\ shape_id = 0
    /\ edges = <<>>
    /\ edges_buffer = <<>>
    /\ current_num_edges = 0
    /\ num_edges = 0
    /\ edges_count = 0

Init ==
    /\ pc = "collect"
    /\ shapes \in ShapeLists
    /\ shape_id = 0
    /\ edges = [i \in 0..(3 * SumLens(shapes) - 1) |-> NoEdge]
    /\ edges_buffer = [i \in 0..(3 * SumLens(shapes) - 1) |-> NoEdge]
    /\ current_num_edges = 0
    /\ num_edges = 0
    /\ edges_count = 0
    /\ DistIdle
    /\ PassIdle
    /\ CalcIdle

\* parallel_for(edge_collector{...}, 3 * num_triangles)
CollectEdges ==
    /\ pc = "collect"
    /\ shape_id < Len(shapes)
    /\ edges' = Store(edges, current_num_edges,
                      [i \in 1..(3 * num_triangles(shape_id)) |->
                          edge_collector(shape_id, i - 1)])
    /\ pc' = "sort"
    /\ UNCHANGED <<shapes, shape_id, edges_buffer, current_num_edges,
                   num_edges, edges_count>>
    /\ UNCHANGED <<calcVars, distVars, passVars>>

\* thrust::sort(edges_begin, edges_begin + 3 * num_triangles, edge_less_comparer)
SortEdges ==
    /\ pc = "sort"
    /\ \E s \in thrust_sort(Slice(edges, current_num_edges,
                                  3 * num_triangles(shape_id))) :
          edges' = Store(edges, current_num_edges, s)
    /\ pc' = "reduce"
    /\ UNCHANGED <<shapes, shape_id, edges_buffer, current_num_edges,
                   num_edges, edges_count>>
    /\ UNCHANGED <<calcVars, distVars, passVars>>

\* thrust::reduce_by_key(..., edge_equal_comparer, edge_merger) into edges_buffer
MergeEdges ==
    /\ pc = "reduce"
    /\ \E out \in thrust_reduce_by_key(Slice(edges, current_num_edges,
                                             3 * num_triangles(shape_id))) :
          /\ edges_buffer' = Store(edges_buffer, 0, out)
          /\ num_edges' = Len(out)
    /\ pc' = "copy"
    /\ UNCHANGED <<shapes, shape_id, edges, current_num_edges, edges_count>>
    /\ UNCHANGED <<calcVars, distVars, passVars>>

\* Mutation: the copy back counts one edge more than reduce_by_key wrote.
CopyBack_one_past ==
    /\ pc = "copy"
    /\ edges' = Store(edges, current_num_edges, Slice(edges_buffer, 0, num_edges))
    /\ current_num_edges' = current_num_edges + num_edges + 1
    /\ shape_id' = shape_id + 1
    /\ pc' = "collect"
    /\ UNCHANGED <<shapes, edges_buffer, num_edges, edges_count>>
    /\ UNCHANGED <<calcVars, distVars, passVars>>

\* thrust::copy(edges_buffer_begin, new_end, edges_begin); current_num_edges += num_edges
CopyBack ==
    /\ pc = "copy"
    /\ edges' = Store(edges, current_num_edges, Slice(edges_buffer, 0, num_edges))
    /\ current_num_edges' = current_num_edges + num_edges
    /\ shape_id' = shape_id + 1
    /\ pc' = "collect"
    /\ UNCHANGED <<shapes, edges_buffer, num_edges, edges_count>>
    /\ UNCHANGED <<calcVars, distVars, passVars>>

\* edges.count = current_num_edges
SetCount ==
    /\ pc = "collect"
    /\ shape_id = Len(shapes)
    /\ edges_count' = current_num_edges
    /\ pc' = "edges_done"
    /\ UNCHANGED <<shapes, shape_id, edges, edges_buffer, current_num_edges,
                   num_edges>>
    /\ UNCHANGED <<calcVars, distVars, passVars>>

Next == CollectEdges \/ SortEdges \/ MergeEdges \/ CopyBack \/ SetCount

Spec == Init /\ [][Next]_vars

\* The constructor once the edges are merged (edges.count = NumEdges).  The
\* source sets c_use_edge_tree to true and names false as the fallback build.
InitDist ==
    /\ pc = "primary_weights"
    /\ EdgeIdle
    /\ CalcIdle
    /\ use_edge_tree \in BOOLEAN
    /\ edge_geom \in GeomLists
    /\ primary_edges_pmf = NullBuffer
    /\ primary_edges_cdf = NullBuffer
    /\ secondary_edges_pmf = NullBuffer
    /\ secondary_edges_cdf = NullBuffer
    /\ total_length = RInt(0)
    /\ edge_tree = FALSE
    /\ PassIdle

\* parallel_for(primary_edge_weighter{...}, edges.size())
PrimaryWeights ==
    /\ pc = "primary_weights"
    /\ primary_edges_pmf' = [i \in EdgeIds |-> primary_edge_weighter(edge_geom[i])]
    /\ primary_edges_cdf' = [i \in EdgeIds |-> RInt(0)]
    /\ pc' = "primary_reduce"
    /\ UNCHANGED <<use_edge_tree, edge_geom, secondary_edges_pmf,
                   secondary_edges_cdf, total_length, edge_tree>>
    /\ UNCHANGED <<calcVars, edgeVars, passVars>>

\* total_length = thrust::reduce(primary_edges_pmf)
PrimaryReduce ==
    /\ pc = "primary_reduce"
    /\ total_length' = thrust_reduce(primary_edges_pmf, NumEdges)
    /\ pc' = "primary_normalize"
    /\ UNCHANGED <<use_edge_tree, edge_geom, primary_edges_pmf, primary_edges_cdf,
                   secondary_edges_pmf, secondary_edges_cdf, edge_tree>>
    /\ UNCHANGED <<calcVars, edgeVars, passVars>>

\* thrust::transform(primary_edges_pmf, divides by total_length)
PrimaryNormalize ==
    /\ pc = "primary_normalize"
    /\ primary_edges_pmf' = thrust_divides(primary_edges_pmf, total_length)
    /\ pc' = "primary_scan"
    /\ UNCHANGED <<use_edge_tree, edge_geom, primary_edges_cdf,
                   secondary_edges_pmf, secondary_edges_cdf, total_length, edge_tree>>
    /\ UNCHANGED <<calcVars, edgeVars, passVars>>

\* thrust::transform_exclusive_scan(primary_edges_pmf -> primary_edges_cdf)
PrimaryScan ==
    /\ pc = "primary_scan"
    /\ primary_edges_cdf' = thrust_exclusive_scan(primary_edges_pmf)
    /\ pc' = "secondary"
    /\ UNCHANGED <<use_edge_tree, edge_geom, primary_edges_pmf,
                   secondary_edges_pmf, secondary_edges_cdf, total_length, edge_tree>>
    /\ UNCHANGED <<calcVars, edgeVars, passVars>>

\* if (!c_use_edge_tree): parallel_for(secondary_edge_weighter{...}, edges.size())
SecondaryWeights ==
    /\ pc = "secondary"
    /\ ~use_edge_tree
    /\ secondary_edges_pmf' = [i \in EdgeIds |-> secondary_edge_weighter(edge_geom[i])]
    /\ secondary_edges_cdf' = [i \in EdgeIds |-> RInt(0)]
    /\ pc' = "secondary_reduce"
    /\ UNCHANGED <<use_edge_tree, edge_geom, primary_edges_pmf, primary_edges_cdf,
                   total_length, edge_tree>>
    /\ UNCHANGED <<calcVars, edgeVars, passVars>>

\* total_length = thrust::reduce(secondary_edges_pmf)
SecondaryReduce ==
    /\ pc = "secondary_reduce"
    /\ total_length' = thrust_reduce(secondary_edges_pmf, NumEdges)
    /\ pc' = "secondary_normalize"
    /\ UNCHANGED <<use_edge_tree, edge_geom, primary_edges_pmf, primary_edges_cdf,
                   secondary_edges_pmf, secondary_edges_cdf, edge_tree>>
    /\ UNCHANGED <<calcVars, edgeVars, passVars>>

\* thrust::transform(secondary_edges_pmf, divides by total_length)
SecondaryNormalize ==
    /\ pc = "secondary_normalize"
    /\ secondary_edges_pmf' = thrust_divides(secondary_edges_pmf, total_length)
    /\ pc' = "secondary_scan"
    /\ UNCHANGED <<use_edge_tree, edge_geom, primary_edges_pmf, primary_edges_cdf,
                   secondary_edges_cdf, total_length, edge_tree>>
    /\ UNCHANGED <<calcVars, edgeVars, passVars>>

\* thrust::transform_exclusive_scan(secondary_edges_pmf -> secondary_edges_cdf)
SecondaryScan ==
    /\ pc = "secondary_scan"
    /\ secondary_edges_cdf' = thrust_exclusive_scan(secondary_edges_pmf)
    /\ pc' = "constructed"
    /\ UNCHANGED <<use_edge_tree, edge_geom, primary_edges_pmf, primary_edges_cdf,
                   secondary_edges_pmf, total_length, edge_tree>>
    /\ UNCHANGED <<calcVars, edgeVars, passVars>>

\* the else branch without the allocation of the tree
BuildEdgeTree_leaves_tree_unbuilt ==
    /\ pc = "secondary"
    /\ use_edge_tree
    /\ edge_tree' = FALSE
    /\ pc' = "constructed"
    /\ UNCHANGED <<use_edge_tree, edge_geom, primary_edges_pmf, primary_edges_cdf,
                   secondary_edges_pmf, secondary_edges_cdf, total_length>>
    /\ UNCHANGED <<calcVars, edgeVars, passVars>>

\* else: edge_tree = new EdgeTree(...)
BuildEdgeTree ==
    /\ pc = "secondary"
    /\ use_edge_tree
    /\ edge_tree' = TRUE
    /\ pc' = "constructed"
    /\ UNCHANGED <<use_edge_tree, edge_geom, primary_edges_pmf, primary_edges_cdf,
                   secondary_edges_pmf, secondary_edges_cdf, total_length>>
    /\ UNCHANGED <<calcVars, edgeVars, passVars>>

NextDist ==
    \/ PrimaryWeights \/ PrimaryReduce \/ PrimaryNormalize \/ PrimaryScan
    \/ SecondaryWeights \/ SecondaryReduce \/ SecondaryNormalize \/ SecondaryScan
    \/ BuildEdgeTree

SpecDist == InitDist /\ [][NextDist]_vars

(***************************************************************************)
(* Properties of edge extraction and merging.                              *)
(***************************************************************************)
ShapeIds == 0..(Len(shapes) - 1)
TriIds(sid) == 0..(num_triangles(sid) - 1)

\* The three edge slots of a triangle as vertex sets.
SlotPair(tri, k) ==
    IF k = 0 THEN {tri[1], tri[2]} ELSE IF k = 1 THEN {tri[2], tri[3]} ELSE {tri[3], tri[1]}

NonDegenerate ==
    \A sid \in ShapeIds : \A t \in TriIds(sid) :
        Cardinality({get_indices(sid, t)[k] : k \in 1..3}) = 3

\* The undirected vertex pairs used by the triangles of a shape.
PairsOf(sid) == { SlotPair(get_indices(sid, t), k) : t \in TriIds(sid), k \in 0..2 }

\* The (triangle, slot) places of a shape where a vertex pair occurs, and
\* the triangles among them.
OccSlots(sid, pr) ==
    { x \in TriIds(sid) \X (0..2) : SlotPair(get_indices(sid, x[1]), x[2]) = pr }
OccTris(sid, pr) == { x[1] : x \in OccSlots(sid, pr) }

StoredIds == 0..(edges_count - 1)
KeyOf(e) == {e.v0, e.v1}

RECURSIVE SumPairs(_)
SumPairs(n) == IF n = 0 THEN 0 ELSE Cardinality(PairsOf(n - 1)) + SumPairs(n - 1)

\* C1: after construction over shapes whose triangles have three distinct
\* vertex indices, the edge set holds per shape exactly one Edge for each
\* undirected vertex pair a triangle of the shape uses, every stored Edge has
\* v0 < v1 and the id of the shape it comes from, equal pairs of different
\* shapes are separate entries, and edges.count is the sum of the per-shape
\* numbers of distinct pairs.
C1_EdgeSetExact ==
    (pc = "edges_done" /\ NonDegenerate) =>
        /\ \A i \in StoredIds :
              /\ edges[i].v0 < edges[i].v1
              /\ edges[i].shape_id \in ShapeIds
              /\ KeyOf(edges[i]) \in PairsOf(edges[i].shape_id)
              /\ edges[i].f0 \in OccTris(edges[i].shape_id, KeyOf(edges[i]))
        /\ \A sid \in ShapeIds : \A pr \in PairsOf(sid) :
              Cardinality({ i \in StoredIds :
                              edges[i].shape_id = sid /\ KeyOf(edges[i]) = pr }) = 1
        /\ edges_count = SumPairs(Len(shapes))

\* Two shapes use a common vertex pair, one shape has a pair shared by two
\* of its triangles, and the construction has finished.
C1_Witness ==
    /\ pc = "edges_done"
    /\ NonDegenerate
    /\ Len(shapes) = 2
    /\ PairsOf(0) \cap PairsOf(1) # {}
    /\ \E pr \in PairsOf(0) : Cardinality(OccTris(0, pr)) = 2
    /\ edges_count = Cardinality(PairsOf(0)) + Cardinality(PairsOf(1))
    /\ edges_count >= 8

\* C2 as stated: a key that occurs in exactly one triangle t has f0 = t and
\* f1 = -1, a key that occurs in exactly two triangles has {f0, f1} equal to
\* those two, whatever order the sort gave the equal keys.
C2_FacesByTriangles ==
    pc = "edges_done" =>
        \A i \in StoredIds :
            LET occ == OccTris(edges[i].shape_id, KeyOf(edges[i]))
            IN  /\ Cardinality(occ) = 1 =>
                      /\ {edges[i].f0} = occ
                      /\ edges[i].f1 = -1
                /\ Cardinality(occ) = 2 => {edges[i].f0, edges[i].f1} = occ

\* C2 amended: a key produced by exactly one edge slot (of triangle t) has
\* f0 = t and f1 = -1; a key produced by exactly two edge slots, of triangles
\* t1 and t2, has f1 # -1 and {f0, f1} = {t1, t2}, whatever order the sort
\* gave the two records.
C2_FacesBySlots ==
    pc = "edges_done" =>
        \A i \in StoredIds :
            LET occ == OccSlots(edges[i].shape_id, KeyOf(edges[i]))
            IN  /\ Cardinality(occ) = 1 =>
                      /\ {edges[i].f0} = { x[1] : x \in occ }
                      /\ edges[i].f1 = -1
                /\ Cardinality(occ) = 2 =>
                      /\ edges[i].f1 # -1
                      /\ {edges[i].f0, edges[i].f1} = { x[1] : x \in occ }

\* A key of two triangles was merged with the later triangle's record first.
C2_Witness ==
    /\ pc = "edges_done"
    /\ \E i \in StoredIds :
          /\ Cardinality(OccSlots(edges[i].shape_id, KeyOf(edges[i]))) = 2
          /\ Cardinality(OccTris(edges[i].shape_id, KeyOf(edges[i]))) = 2
          /\ edges[i].f0 > edges[i].f1
          /\ edges[i].f1 >= 0
    /\ \E i \in StoredIds : edges[i].f1 = -1

\* The sorted records of the shape just reduced (still in edges at "copy").
SortedSlice == Slice(edges, current_num_edges, 3 * num_triangles(shape_id))
RunOf(e) == SelectSeq(SortedSlice, LAMBDA r : edge_equal_comparer(r, e))

\* C3: for a key that occurs in more than two triangles, the merged Edge has
\* as f0 and f1 the triangles of the first and second occurrence in sorted
\* order; later occurrences do not influence it (stated here for meshes
\* whose triangles have three distinct vertex indices).
C3_FirstTwoOccurrences ==
    (pc = "copy" /\ NonDegenerate) =>
        \A j \in 0..(num_edges - 1) :
            LET run == RunOf(edges_buffer[j])
            IN  Cardinality(OccTris(shape_id, KeyOf(edges_buffer[j]))) > 2 =>
                    /\ edges_buffer[j].f0 = run[1].f0
                    /\ edges_buffer[j].f1 = run[2].f0

\* C4: edge_merger is associative and commutative on records with equal
\* keys (checked on the records the reduction is about to combine).
C4_MergerAssocComm ==
    (pc = "reduce" /\ NonDegenerate) =>
        \A a, b, c \in { SortedSlice[i] : i \in DOMAIN SortedSlice } :
            (edge_equal_comparer(a, b) /\ edge_equal_comparer(b, c)) =>
                /\ edge_merger(edge_merger(a, b), c) = edge_merger(a, edge_merger(b, c))
                /\ edge_merger(a, b) = edge_merger(b, a)

(***************************************************************************)
(* Properties of the distribution builder.                                 *)
(***************************************************************************)
\* The sum of the first n slots of a buffer of Reals.
RECURSIVE SumOfSlots(_, _)
SumOfSlots(buf, n) ==
    IF n = 0 THEN RInt(0) ELSE RAdd(buf[n - 1], SumOfSlots(buf, n - 1))

PrimaryWeightOf == [i \in EdgeIds |-> primary_edge_weighter(edge_geom[i])]
SecondaryWeightOf == [i \in EdgeIds |-> secondary_edge_weighter(edge_geom[i])]

PrimaryPmfBuilt ==
    pc \in {"primary_scan", "secondary", "secondary_reduce", "secondary_normalize",
            "secondary_scan", "constructed"}
PrimaryCdfBuilt == PrimaryPmfBuilt /\ pc # "primary_scan"
SecondaryPmfBuilt == pc = "secondary_scan" \/ (pc = "constructed" /\ ~use_edge_tree)
SecondaryCdfBuilt == pc = "constructed" /\ ~use_edge_tree

PmfNormalized(p_buf, w) ==
    LET total == SumOfSlots(w, NumEdges)
    IN  RLt(RInt(0), total) =>
            /\ \A i \in EdgeIds :
                  /\ RLeq(RInt(0), p_buf[i])
                  /\ IsFinite(p_buf[i])
                  /\ p_buf[i].n * total.n * w[i].d = w[i].n * total.d * p_buf[i].d
            /\ REq(SumOfSlots(p_buf, NumEdges), RInt(1))

\* C5: whenever the total of the per-edge weights is > 0, the built PMF
\* (primary, and secondary when it is built) has pmf[i] >= 0 and
\* pmf[i] = weight[i] / total for every edge, and its values sum to 1.
C5_PmfNormalized ==
    /\ PrimaryPmfBuilt => PmfNormalized(primary_edges_pmf, PrimaryWeightOf)
    /\ SecondaryPmfBuilt => PmfNormalized(secondary_edges_pmf, SecondaryWeightOf)

\* Both distributions are built over three edges of positive total weight,
\* one of which has weight zero and two of which have different weights.
C5_Witness ==
    /\ pc = "constructed"
    /\ ~use_edge_tree
    /\ NumEdges = 3
    /\ RLt(RInt(0), SumOfSlots(PrimaryWeightOf, NumEdges))
    /\ RLt(RInt(0), SumOfSlots(SecondaryWeightOf, NumEdges))
    /\ \E i, j, k \in EdgeIds :
          /\ primary_edges_pmf[i] = RInt(0)
          /\ RLt(RInt(0), primary_edges_pmf[j])
          /\ RLt(primary_edges_pmf[j], primary_edges_pmf[k])
          /\ RLt(RInt(0), secondary_edges_pmf[j])

\* c_buf is the exclusive prefix sum of p_buf, as values (NaN equal to itself).
IsExclusivePrefixSum(p_buf, c_buf) ==
    NumEdges >= 1 =>
        /\ c_buf[0] = RInt(0)
        /\ \A i \in 0..(NumEdges - 2) : c_buf[i + 1] = RAdd(c_buf[i], p_buf[i])
        /\ RAdd(c_buf[NumEdges - 1], p_buf[NumEdges - 1]) = SumOfSlots(p_buf, NumEdges)

IsNonDecreasing(c_buf) == \A i \in 0..(NumEdges - 2) : RLeq(c_buf[i], c_buf[i + 1])

CdfOfPositiveTotal(p_buf, c_buf, w) ==
    RLt(RInt(0), SumOfSlots(w, NumEdges)) =>
        /\ IsExclusivePrefixSum(p_buf, c_buf)
        /\ IsNonDecreasing(c_buf)
        /\ \A i \in EdgeIds : IsFinite(c_buf[i])
        /\ REq(RAdd(c_buf[NumEdges - 1], p_buf[NumEdges - 1]), RInt(1))

MaxTreeEdges == 3
SampleDen == 4

\* An edge of the scene as the tree sees it: the two endpoints, the weight
\* its leaf carries and the partition (convex-silhouette-only or not) it is
\* filed under.
SceneEdge(v0, v1, w, cs) == [v0 |-> v0, v1 |-> v1, weight |-> w, cs |-> cs]

ScenePool ==
    { SceneEdge(<<0, 0, 1>>, <<1, 0, 2>>, 1, TRUE),
      SceneEdge(<<0, 1, 1>>, <<0, 2, 1>>, 2, FALSE),
      SceneEdge(<<0, 0, -1>>, <<0, 1, -2>>, 1, FALSE),
      SceneEdge(<<-1, 0, 1>>, <<2, 0, -2>>, 1, TRUE),
      SceneEdge(<<1, 0, 0>>, <<0, 1, 0>>, 1, FALSE) }

\* The edge lists of the scene, edge ids 0 .. n - 1.
SceneLists ==
    UNION { { f \in [0..(n - 1) -> ScenePool] :
                \A i, j \in 0..(n - 1) : f[i] = f[j] => i = j } :
            n \in 1..MaxTreeEdges }

\* The shading points of the queries; the normal is shading_frame[2] up to
\* its (positive) length, which no sign test depends on.
ShadingPool ==
    { [position |-> <<0, 0, 0>>, n |-> <<0, 0, 1>>],
      [position |-> <<0, 0, 0>>, n |-> <<1, 0, 1>>],
      [position |-> <<0, 0, 2>>, n |-> <<0, 0, 1>>] }

\* The uniform samples in [0, 1).
Samples == { RNorm(k, SampleDen) : k \in 0..(SampleDen - 1) }

\* The values ltc_sphere_integral (a table lookup times a form factor) and
\* Real(M_PI) give brdf_term: non-negative and finite.
BrdfTerms == { RInt(0), RInt(1), RNorm(22, 7) }

dot(a, b) == a[1] * b[1] + a[2] * b[2] + a[3] * b[3]
VSub(a, b) == <<a[1] - b[1], a[2] - b[2], a[3] - b[3]>>
AABB3(p_min, p_max) == [p_min |-> p_min, p_max |-> p_max]

\* Corner i of a box: bit k of i picks p_max on axis k.
corner(bounds, i) ==
    << IF i % 2 = 1 THEN bounds.p_max[1] ELSE bounds.p_min[1],
       IF (i \div 2) % 2 = 1 THEN bounds.p_max[2] ELSE bounds.p_min[2],
       IF (i \div 4) % 2 = 1 THEN bounds.p_max[3] ELSE bounds.p_min[3] >>

\* Edge-tree construction: a leaf per edge whose bound is the box spanned by
\* the edge's endpoints and whose weighted_total_length is the edge's
\* weight; an internal node bounds the union of its children and sums their
\* weighted lengths; the hierarchy is balanced.
LeafNode(edge_list, id, kind) ==
    LET e == edge_list[id]
    IN  [edge_id |-> id,
         kind |-> kind,
         bounds |-> AABB3([k \in 1..3 |-> Min(e.v0[k], e.v1[k])],
                          [k \in 1..3 |-> Max(e.v0[k], e.v1[k])]),
         weighted_total_length |-> RInt(e.weight),
         children |-> <<>>]

InnerNode(c0, c1, kind) ==
    [edge_id |-> -1,
     kind |-> kind,
     bounds |-> AABB3([k \in 1..3 |-> Min(c0.bounds.p_min[k], c1.bounds.p_min[k])],
                      [k \in 1..3 |-> Max(c0.bounds.p_max[k], c1.bounds.p_max[k])]),
     weighted_total_length |-> RAdd(c0.weighted_total_length,
                                    c1.weighted_total_length),
     children |-> <<c0, c1>>]

RECURSIVE BuildBVH(_, _, _)
BuildBVH(edge_list, ids, kind) ==
    IF Len(ids) = 1 THEN LeafNode(edge_list, ids[1], kind)
    ELSE
        LET h == (Len(ids) + 1) \div 2
        IN  InnerNode(BuildBVH(edge_list, SubSeq(ids, 1, h), kind),
                      BuildBVH(edge_list, SubSeq(ids, h + 1, Len(ids)), kind),
                      kind)

\* The ids of the edges of one partition, in ascending order.
RECURSIVE IdsOf(_, _, _)
IdsOf(edge_list, cs, from) ==
    IF from \notin DOMAIN edge_list THEN <<>>
    ELSE IF edge_list[from].cs = cs
         THEN <<from>> \o IdsOf(edge_list, cs, from + 1)
         ELSE IdsOf(edge_list, cs, from + 1)

EdgeTreeRoots(edge_list) ==
    LET cs_ids == IdsOf(edge_list, TRUE, 0)
        ncs_ids == IdsOf(edge_list, FALSE, 0)
    IN  [cs_bvh_root |-> IF cs_ids = <<>> THEN NullNode
                         ELSE BuildBVH(edge_list, cs_ids, "BVHNode3"),
         ncs_bvh_root |-> IF ncs_ids = <<>> THEN NullNode
                          ELSE BuildBVH(edge_list, ncs_ids, "BVHNode6")]

\* is_bound_below_surface with `dot >= 0` as the test of a corner.
is_bound_below_surface_strict(bounds, p) ==
    ~ \E i \in 0..7 : dot(p.n, VSub(corner(bounds, i), p.position)) >= 0

is_bound_below_surface(bounds, p) ==
    ~ \E i \in 0..7 : dot(p.n, VSub(corner(bounds, i), p.position)) > 0

RMax(a, b) == IF RLt(a, b) THEN b ELSE a

\* distance_squared(b_sphere.center, p.position), the sphere centred at the
\* middle of the box.
center_distance_squared(bounds, p) ==
    LET c2 == [k \in 1..3 |-> bounds.p_min[k] + bounds.p_max[k] - 2 * p.position[k]]
    IN  RNorm(dot(c2, c2), 4)

\* importance(node, p, m_inv) of BVHNode3 and BVHNode6.  brdf_term is what
\* the LTC sphere integral (or M_PI) evaluates to, d_hit whether the sphere
\* around 0.5 * (p + cam_org) intersects the node's directional bound.
importance(nd, p, brdf_term, d_hit) ==
    IF is_bound_below_surface(nd.bounds, p) THEN RInt(0)
    ELSE IF nd.kind = "BVHNode6" /\ ~d_hit THEN RInt(0)
    ELSE RDiv(RMul(brdf_term, nd.weighted_total_length),
              RMax(center_distance_squared(nd.bounds, p), RNorm(1, 1000000)))

\* The answers intersect(Sphere, d_bounds) can give for a node: only a
\* BVHNode6 has a directional bound to test.
DHits(nd) == IF nd # NullNode /\ nd.kind = "BVHNode6" THEN BOOLEAN ELSE {TRUE}

\* One branch of the descent: the two importances compared, the sample
\* that was tested and the child (0 or 1) entered.
Branch(imp0, imp1, s, child) ==
    [imp0 |-> imp0, imp1 |-> imp1, sample |-> s, child |-> child]

\* sample * (imp0 + imp1) / imp0
rescale_first(s, imp0, imp1) == RDiv(RMul(s, RAdd(imp0, imp1)), imp0)

\* The rescaling of the second branch without the shift by imp0.
rescale_second_unshifted(s, imp0, imp1) == RDiv(RMul(s, RAdd(imp0, imp1)), imp1)

\* (sample * (imp0 + imp1) - imp0) / imp1
rescale_second(s, imp0, imp1) == RDiv(RSub(RMul(s, RAdd(imp0, imp1)), imp0), imp1)

\* `sample <= prob` as the branch test.
takes_first_leq(s, prob) == RLeq(s, prob)

\* if (sample < prob_0) / if (sample < prob_cs)
takes_first(s, prob) == RLt(s, prob)

InitTree ==
    /\ pc = "sample_edge_roots"
    /\ EdgeIdle
    /\ CalcIdle
    /\ DistIdle
    /\ StepIdle
    /\ scene_edges \in SceneLists
    /\ edge_tree_roots = EdgeTreeRoots(scene_edges)
    /\ shading_point \in ShadingPool
    /\ node = NullNode
    /\ sample \in Samples
    /\ pmf = RInt(0)
    /\ sampled_edge_id = -1
    /\ path = <<>>
    /\ TaskIdle
    /\ SampleIdle
    /\ AccumIdle

\* sample_edge(edge_tree_roots, p, m_inv, sample, pmf)
sample_edge_roots ==
    /\ pc = "sample_edge_roots"
    /\ \E b_cs, b_ncs \in BrdfTerms, d_hit \in DHits(edge_tree_roots.ncs_bvh_root) :
        LET cs == edge_tree_roots.cs_bvh_root
            ncs == edge_tree_roots.ncs_bvh_root
            imp_cs == IF cs # NullNode
                      THEN importance(cs, shading_point, b_cs, d_hit)
                      ELSE RInt(0)
            imp_ncs == IF ncs # NullNode
                       THEN importance(ncs, shading_point, b_ncs, d_hit)
                       ELSE RInt(0)
            total == RAdd(imp_cs, imp_ncs)
            prob_cs == RDiv(imp_cs, total)
        IN  IF RLeq(imp_cs, RInt(0)) /\ RLeq(imp_ncs, RInt(0)) THEN
                /\ sampled_edge_id' = -1
                /\ pc' = "sampled"
                /\ UNCHANGED <<node, sample, pmf, path>>
            ELSE IF takes_first(sample, prob_cs) THEN
                /\ pmf' = prob_cs
                /\ sample' = rescale_first(sample, imp_cs, imp_ncs)
                /\ node' = cs
                /\ path' = Append(path, Branch(imp_cs, imp_ncs, sample, 0))
                /\ pc' = "sample_edge_node"
                /\ UNCHANGED sampled_edge_id
            ELSE
                /\ pmf' = RSub(RInt(1), prob_cs)
                /\ sample' = rescale_second(sample, imp_cs, imp_ncs)
                /\ node' = ncs
                /\ path' = Append(path, Branch(imp_cs, imp_ncs, sample, 1))
                /\ pc' = "sample_edge_node"
                /\ UNCHANGED sampled_edge_id
    /\ UNCHANGED <<scene_edges, edge_tree_roots, shading_point>>
    /\ UNCHANGED <<calcVars, edgeVars, distVars, taskVars, sampVars, accVars, stepVars>>

\* sample_edge(node, p, m_inv, sample, pmf), one call of the recursion
sample_edge_node ==
    /\ pc = "sample_edge_node"
    /\ IF node = NullNode THEN
            \* a null root was dereferenced
            /\ sampled_edge_id' \in {-1} \cup DOMAIN scene_edges
            /\ pc' = "sampled"
            /\ UNCHANGED <<node, sample, pmf, path>>
       ELSE IF node.edge_id # -1 THEN
            /\ sampled_edge_id' = node.edge_id
            /\ pc' = "sampled"
            /\ UNCHANGED <<node, sample, pmf, path>>
       ELSE
            \E b0, b1 \in BrdfTerms, d_hit0, d_hit1 \in DHits(node) :
                LET imp0 == importance(node.children[1], shading_point, b0, d_hit0)
                    imp1 == importance(node.children[2], shading_point, b1, d_hit1)
                    total == RAdd(imp0, imp1)
                    prob_0 == RDiv(imp0, total)
                IN  IF RLeq(imp0, RInt(0)) /\ RLeq(imp1, RInt(0)) THEN
                        /\ sampled_edge_id' = -1
                        /\ pc' = "sampled"
                        /\ UNCHANGED <<node, sample, pmf, path>>
                    ELSE IF takes_first(sample, prob_0) THEN
                        /\ pmf' = RMul(pmf, prob_0)
                        /\ sample' = rescale_first(sample, imp0, imp1)
                        /\ node' = node.children[1]
                        /\ path' = Append(path, Branch(imp0, imp1, sample, 0))
                        /\ pc' = "sample_edge_node"
                        /\ UNCHANGED sampled_edge_id
                    ELSE
                        /\ pmf' = RMul(pmf, RSub(RInt(1), prob_0))
                        /\ sample' = rescale_second(sample, imp0, imp1)
                        /\ node' = node.children[2]
                        /\ path' = Append(path, Branch(imp0, imp1, sample, 1))
                        /\ pc' = "sample_edge_node"
                        /\ UNCHANGED sampled_edge_id
    /\ UNCHANGED <<scene_edges, edge_tree_roots, shading_point>>
    /\ UNCHANGED <<calcVars, edgeVars, distVars, taskVars, sampVars, accVars, stepVars>>

NextTree == sample_edge_roots \/ sample_edge_node

SpecTree == InitTree /\ [][NextTree]_vars

(***************************************************************************)
(* Properties of the edge-tree descent.                                    *)
(***************************************************************************)
SceneIds == DOMAIN scene_edges

\* The edge ids held by the leaves below a node.
RECURSIVE LeafIds(_)
LeafIds(nd) ==
    IF nd = NullNode THEN {}
    ELSE IF nd.edge_id # -1 THEN {nd.edge_id}
    ELSE LeafIds(nd.children[1]) \cup LeafIds(nd.children[2])

\* The leaf that holds edge id under a node (NullNode if none does).
RECURSIVE LeafOf(_, _)
LeafOf(nd, id) ==
    IF nd = NullNode THEN NullNode
    ELSE IF nd.edge_id # -1 THEN (IF nd.edge_id = id THEN nd ELSE NullNode)
    ELSE LET leaf == LeafOf(nd.children[1], id)
         IN  IF leaf # NullNode THEN leaf ELSE LeafOf(nd.children[2], id)

LeafOfEdge(id) ==
    LET leaf == LeafOf(edge_tree_roots.cs_bvh_root, id)
    IN  IF leaf # NullNode THEN leaf ELSE LeafOf(edge_tree_roots.ncs_bvh_root, id)

\* C7: for every shading point and every uniform sample in [0,1), the
\* descent from the two roots returns -1 or the edge id of a leaf of one of
\* the two trees, and when it returns an edge id the pmf it reports is
\* strictly positive.
C7_DescentResult ==
    pc = "sampled" =>
        \/ sampled_edge_id = -1
        \/ /\ sampled_edge_id \in LeafIds(edge_tree_roots.cs_bvh_root)
                                  \cup LeafIds(edge_tree_roots.ncs_bvh_root)
           /\ RLt(RInt(0), pmf)

\* A descent through at least one internal node returned an edge, with a
\* pmf below 1.
C7_Witness ==
    /\ pc = "sampled"
    /\ sampled_edge_id # -1
    /\ node.edge_id = sampled_edge_id
    /\ Cardinality(SceneIds) = MaxTreeEdges
    /\ RLt(pmf, RInt(1))

\* Both endpoints of the edge are on or below the tangent plane at p.
EndpointsOnOrBelow(id, p) ==
    /\ dot(p.n, VSub(scene_edges[id].v0, p.position)) <= 0
    /\ dot(p.n, VSub(scene_edges[id].v1, p.position)) <= 0

\* All eight corners of the box are on or below the tangent plane at p.
CornersOnOrBelow(bounds, p) ==
    \A x \in {bounds.p_min[1], bounds.p_max[1]},
       y \in {bounds.p_min[2], bounds.p_max[2]},
       z \in {bounds.p_min[3], bounds.p_max[3]} :
        dot(p.n, VSub(<<x, y, z>>, p.position)) <= 0

\* The leaf of the edge has importance exactly 0 at p, whatever the LTC term.
LeafImportanceZero(id) ==
    \A b \in BrdfTerms, d_hit \in BOOLEAN :
        importance(LeafOfEdge(id), shading_point, b, d_hit) = RInt(0)

\* C8 as stated: for an edge whose two endpoints both lie on or below the
\* tangent plane of the shading point, the importance of its leaf is exactly
\* 0 and the descent never returns that edge.
C8_EndpointsBelowNeverSampled ==
    \A id \in SceneIds :
        EndpointsOnOrBelow(id, shading_point) =>
            /\ pc = "sampled" => LeafImportanceZero(id)
            /\ pc = "sampled" => sampled_edge_id # id

\* C8, amended: for an edge whose leaf bound has all eight corners on or
\* below the tangent plane of the shading point, the importance of the leaf
\* is exactly 0 and the descent never returns that edge.
C8_BoundBelowNeverSampled ==
    \A id \in SceneIds :
        CornersOnOrBelow(LeafOfEdge(id).bounds, shading_point) =>
            /\ LeafImportanceZero(id)
            /\ pc = "sampled" => sampled_edge_id # id

\* A descent returned an edge out of a tree that also holds an edge whose
\* bound is on or below the tangent plane.
C8_Witness ==
    /\ pc = "sampled"
    /\ sampled_edge_id # -1
    /\ \E id \in SceneIds :
        /\ CornersOnOrBelow(LeafOfEdge(id).bounds, shading_point)
        /\ scene_edges[id].cs = scene_edges[sampled_edge_id].cs
        /\ id # sampled_edge_id


\* The probability of child 0 at a branch, and of the child it entered.
ProbFirst(b) == RDiv(b.imp0, RAdd(b.imp0, b.imp1))
ProbTaken(b) == IF b.child = 0 THEN ProbFirst(b) ELSE RSub(RInt(1), ProbFirst(b))

\* The product of the probabilities of the first k branches of the path.
RECURSIVE PathProduct(_)
PathProduct(k) ==
    IF k = 0 THEN RInt(1) ELSE RMul(PathProduct(k - 1), ProbTaken(path[k]))

\* The lower end of the interval of input samples that take the first k
\* branches of the path: child 0 keeps the lower part of the interval, of
\* relative length ProbFirst, child 1 the rest.
RECURSIVE PathLow(_)
PathLow(k) ==
    IF k = 0 THEN RInt(0)
    ELSE RAdd(PathLow(k - 1),
              IF path[k].child = 1
              THEN RMul(PathProduct(k - 1), ProbFirst(path[k]))
              ELSE RInt(0))

InUnitInterval(x) == RLeq(RInt(0), x) /\ RLt(x, RInt(1))

\* C19: with non-negative importances and an input sample in [0,1), at each
\* branch child 0 is entered exactly when the sample is below
\* imp0/(imp0+imp1), the child entered has importance > 0, the sample handed
\* on lies in [0,1) again, and the pmf is the product of the branch
\* probabilities, which is the length of the interval of input samples that
\* take this path (the input sample is its lower end plus sample * pmf).
C19_DescentProbabilities ==
    /\ \A k \in 1..Len(path) :
        /\ RLeq(RInt(0), path[k].imp0) /\ RLeq(RInt(0), path[k].imp1)
        /\ InUnitInterval(path[k].sample)
        /\ (path[k].child = 0) <=> RLt(path[k].sample, ProbFirst(path[k]))
        /\ RLt(RInt(0), IF path[k].child = 0 THEN path[k].imp0 ELSE path[k].imp1)
    /\ path # <<>> =>
        /\ InUnitInterval(sample)
        /\ pmf = PathProduct(Len(path))
        /\ path[1].sample = RAdd(PathLow(Len(path)), RMul(sample, pmf))
        /\ RLeq(PathLow(Len(path)), path[1].sample)
        /\ RLt(path[1].sample, RAdd(PathLow(Len(path)), pmf))

\* A descent returned an edge after entering a second child and then a
\* first child, both with a probability below 1.
C19_Witness ==
    /\ pc = "sampled"
    /\ sampled_edge_id # -1
    /\ \E j, k \in 1..Len(path) :
        /\ j < k
        /\ path[j].child = 1 /\ path[k].child = 0
        /\ RLt(ProbTaken(path[j]), RInt(1)) /\ RLt(ProbTaken(path[k]), RInt(1))

(***************************************************************************)
(* sample_primary_edges / sample_secondary_edges: one task per index idx,  *)
(* the tasks of a pass running in any interleaving.                        *)
(***************************************************************************)
NumTasks == 2
MaxDims == 2

Tasks == 0..(NumTasks - 1)
Pixels == 0..(NumTasks - 1)

\* A sample of a task: edge_sel picks the edge of the primary pass on the
\* CDF; picked is the edge the secondary pass's selection (resampling or
\* tree descent) yields for it, -1 for none; accept tells whether the later
\* tests of the task (projection, in_screen, silhouette, line_pdf, bsdf)
\* let it through.
EdgeSample(sel, picked, accept) == [edge_sel |-> sel, picked |-> picked, accept |-> accept]

SamplePool ==
    { EdgeSample(RInt(0), 0, TRUE),
      EdgeSample(RNorm(1, 2), 1, TRUE),
      EdgeSample(RNorm(1, 2), -1, FALSE) }

\* The primary distributions of a two-edge scene, as the builder leaves them.
PrimaryDistPool ==
    { [pmf |-> (0 :> RNorm(1, 2) @@ 1 :> RNorm(1, 2)), cdf |-> (0 :> RInt(0) @@ 1 :> RNorm(1, 2))],
      [pmf |-> (0 :> RInt(1) @@ 1 :> RInt(0)), cdf |-> (0 :> RInt(0) @@ 1 :> RInt(1))] }

\* What a slot holds before the pass writes it.
Stale == "stale"

\* The output buffers of a pass over n tasks and nd channels.
OutputBuffers(n, nd) ==
    [edge_records |-> [i \in 0..(n - 1) |-> Stale],
     rays |-> [i \in 0..(2 * n - 1) |-> Stale],
     throughputs |-> [i \in 0..(2 * n - 1) |-> Stale],
     new_throughputs |-> [i \in 0..(2 * n - 1) |-> Stale],
     channel_multipliers |-> [i \in 0..(2 * nd * n - 1) |-> Stale],
     primary_ray_differentials |-> [i \in 0..(n - 1) |-> Stale],
     bsdf_differentials |-> [i \in 0..(2 * n - 1) |-> Stale],
     edge_min_roughness |-> [i \in 0..(2 * n - 1) |-> Stale]]

\* Mutation: the pair of a task at idx + k.
pair_slot_stride1(idx, k) == idx + k

\* 2 * idx + 0 and 2 * idx + 1
pair_slot(idx, k) == 2 * idx + k

\* 2 * nd * idx + d (k = 0) and 2 * nd * idx + d + nd (k = 1)
channel_slot(idx, d, k) == 2 * num_total_dimensions * idx + d + k * num_total_dimensions

\* Mutation: thrust::lower_bound, the first slot that is not below x.
lower_bound(cdf, x) ==
    LET n == Cardinality(DOMAIN cdf)
        notbelow == { i \in DOMAIN cdf : ~RLt(cdf[i], x) }
    IN  IF notbelow = {} THEN n ELSE CHOOSE i \in notbelow : \A j \in notbelow : i <= j

\* thrust::upper_bound(edges_cdf, edges_cdf + num_edges, x) - edges_cdf
upper_bound(cdf, x) ==
    LET n == Cardinality(DOMAIN cdf)
        above == { i \in DOMAIN cdf : RLt(x, cdf[i]) }
    IN  IF above = {} THEN n ELSE CHOOSE i \in above : \A j \in above : i <= j

clamp(x, lo, hi) == IF x < lo THEN lo ELSE IF x > hi THEN hi ELSE x

\* The edge the primary sampler picks for task idx.
primary_edge_id(idx) ==
    clamp(upper_bound(primary_edges_cdf, samples[idx].edge_sel) - 1,
          0, Cardinality(DOMAIN primary_edges_pmf) - 1)

\* The writes of a step, as <<buffer, slot, value>>.
primary_init_writes(idx) ==
    { <<"edge_records", idx, [edge |-> -1, edge_pt |-> RInt(0)]>> }
    \cup { <<"throughputs", pair_slot(idx, k), RInt(0)>> : k \in {0, 1} }
    \cup { <<"channel_multipliers", channel_slot(idx, d, k), RInt(0)>> :
             d \in 0..(num_total_dimensions - 1), k \in {0, 1} }
    \cup { <<"rays", pair_slot(idx, k), <<"Ray", 0, 0>> >> : k \in {0, 1} }

\* The early returns of the primary sampler: projection fails, the edge has
\* pmf <= 0, the point is off the screen.
primary_rejects(idx) ==
    \/ ~samples[idx].accept
    \/ RLeq(primary_edges_pmf[primary_edge_id(idx)], RInt(0))

primary_emit_writes(idx) ==
    LET eid == primary_edge_id(idx)
        edge_pt == samples[idx].edge_sel
        upper_weight == RDiv(RInt(1), primary_edges_pmf[eid])
    IN  { <<"edge_records", idx, [edge |-> eid, edge_pt |-> edge_pt]>> }
        \cup { <<"rays", pair_slot(idx, k), <<"Ray", edge_pt, k>> >> : k \in {0, 1} }
        \cup { <<"throughputs", pair_slot(idx, 0), upper_weight>>,
               <<"throughputs", pair_slot(idx, 1), RNeg(upper_weight)>> }
        \cup { <<"channel_multipliers", channel_slot(idx, d, 0), upper_weight>> :
                 d \in 0..(num_total_dimensions - 1) }
        \cup { <<"channel_multipliers", channel_slot(idx, d, 1), RNeg(upper_weight)>> :
                 d \in 0..(num_total_dimensions - 1) }
        \cup { <<"primary_ray_differentials", idx, <<"RayDifferential", edge_pt>> >> }

\* Mutation: "Initialize output" also zeroes the ray differentials.
secondary_init_writes_zeroing(idx) ==
    LET min_rough == min_roughness[active_pixels[idx]]
    IN  { <<"edge_records", idx, [edge |-> -1, edge_pt |-> RInt(0)]>> }
        \cup { <<"new_throughputs", pair_slot(idx, k), RInt(0)>> : k \in {0, 1} }
        \cup { <<"rays", pair_slot(idx, k), <<"Ray", 0, 0>> >> : k \in {0, 1} }
        \cup { <<"bsdf_differentials", pair_slot(idx, k), <<"RayDifferential", 0>> >> :
                 k \in {0, 1} }
        \cup { <<"edge_min_roughness", pair_slot(idx, k), min_rough>> : k \in {0, 1} }

secondary_init_writes(idx) ==
    LET min_rough == min_roughness[active_pixels[idx]]
    IN  { <<"edge_records", idx, [edge |-> -1, edge_pt |-> RInt(0)]>> }
        \cup { <<"new_throughputs", pair_slot(idx, k), RInt(0)>> : k \in {0, 1} }
        \cup { <<"rays", pair_slot(idx, k), <<"Ray", 0, 0>> >> : k \in {0, 1} }
        \cup { <<"edge_min_roughness", pair_slot(idx, k), min_rough>> : k \in {0, 1} }

\* The early returns of the secondary sampler: min_rough > 1e-2, no edge
\* selected, and the tests on the selected edge.
secondary_rejects(idx) ==
    \/ RLt(RNorm(1, 100), min_roughness[active_pixels[idx]])
    \/ samples[idx].picked = -1
    \/ ~samples[idx].accept

secondary_emit_writes(idx) ==
    LET eid == samples[idx].picked
        pixel_id == active_pixels[idx]
        nt == RInt(1 + eid)
    IN  { <<"edge_records", idx, [edge |-> eid, edge_pt |-> samples[idx].edge_sel]>> }
        \cup { <<"rays", pair_slot(idx, k), <<"Ray", pixel_id, k>> >> : k \in {0, 1} }
        \cup { <<"bsdf_differentials", pair_slot(idx, k), <<"RayDifferential", pixel_id>> >> :
                 k \in {0, 1} }
        \cup { <<"new_throughputs", pair_slot(idx, 0), nt>>,
               <<"new_throughputs", pair_slot(idx, 1), RNeg(nt)>> }

init_writes(idx) ==
    IF pass = "primary" THEN primary_init_writes(idx) ELSE secondary_init_writes(idx)

rejects(idx) ==
    IF pass = "primary" THEN primary_rejects(idx) ELSE secondary_rejects(idx)

emit_writes(idx) ==
    IF pass = "primary" THEN primary_emit_writes(idx) ELSE secondary_emit_writes(idx)

\* The buffers after the stores W; a store outside a buffer lands nowhere
\* in the buffers of the pass.
Apply(B, W) ==
    [b \in DOMAIN B |->
        [sl \in DOMAIN B[b] |->
            IF \E w \in W : w[1] = b /\ w[2] = sl
            THEN (CHOOSE w \in W : w[1] = b /\ w[2] = sl)[3]
            ELSE B[b][sl]]]

Logged(W, idx) == { <<w[1], w[2], idx>> : w \in W }

InitSample ==
    /\ pc = "parallel_for"
    /\ EdgeIdle
    /\ CalcIdle
    /\ TreeIdle
    /\ AccumIdle
    /\ StepIdle
    /\ pass \in {"primary", "secondary"}
    /\ use_edge_tree = TRUE
    /\ edge_geom = <<>>
    \* the secondary pass does not read the primary distribution
    /\ \E dist \in PrimaryDistPool :
        /\ primary_edges_pmf = dist.pmf
        /\ primary_edges_cdf = dist.cdf
        /\ pass = "secondary" => dist.pmf[1] # RInt(0)
    /\ secondary_edges_pmf = NullBuffer
    /\ secondary_edges_cdf = NullBuffer
    /\ total_length = RInt(1)
    /\ edge_tree = TRUE
    /\ task_pc = [idx \in Tasks |-> "init"]
    /\ samples \in [Tasks -> SamplePool]
    /\ num_total_dimensions \in 1..MaxDims
    /\ IF pass = "secondary"
       THEN /\ active_pixels \in {[idx \in Tasks |-> idx], [idx \in Tasks |-> 0]}
            /\ min_roughness \in [Pixels -> {RInt(0), RInt(1)}]
       ELSE /\ active_pixels = [idx \in Tasks |-> idx]
            /\ min_roughness = [px \in Pixels |-> RInt(0)]
    /\ buffers = OutputBuffers(NumTasks, num_total_dimensions)
    /\ write_log = {}

\* operator()(idx), "Initialize output"
TaskInit(idx) ==
    /\ pc = "parallel_for"
    /\ task_pc[idx] = "init"
    /\ buffers' = Apply(buffers, init_writes(idx))
    /\ write_log' = write_log \cup Logged(init_writes(idx), idx)
    /\ task_pc' = [task_pc EXCEPT ![idx] = "select"]
    /\ UNCHANGED <<pc, pass, active_pixels, samples, min_roughness,
                   num_total_dimensions>>
    /\ UNCHANGED <<calcVars, edgeVars, distVars, treeVars, accVars, stepVars>>

\* operator()(idx), from the selection of the edge to the last early return
TaskSelect(idx) ==
    /\ pc = "parallel_for"
    /\ task_pc[idx] = "select"
    /\ task_pc' = [task_pc EXCEPT ![idx] = IF rejects(idx) THEN "done" ELSE "emit"]
    /\ UNCHANGED <<pc, pass, active_pixels, sampVars>>
    /\ UNCHANGED <<calcVars, edgeVars, distVars, treeVars, accVars, stepVars>>

\* operator()(idx), the stores of the sampled rays and weights
TaskEmit(idx) ==
    /\ pc = "parallel_for"
    /\ task_pc[idx] = "emit"
    /\ buffers' = Apply(buffers, emit_writes(idx))
    /\ write_log' = write_log \cup Logged(emit_writes(idx), idx)
    /\ task_pc' = [task_pc EXCEPT ![idx] = "done"]
    /\ UNCHANGED <<pc, pass, active_pixels, samples, min_roughness,
                   num_total_dimensions>>
    /\ UNCHANGED <<calcVars, edgeVars, distVars, treeVars, accVars, stepVars>>

\* parallel_for returns once every task has.
PassDone ==
    /\ pc = "parallel_for"
    /\ \A idx \in Tasks : task_pc[idx] = "done"
    /\ pc' = "pass_done"
    /\ UNCHANGED <<calcVars, edgeVars, distVars, passVars>>

NextSample ==
    \/ \E idx \in Tasks : TaskInit(idx)
    \/ \E idx \in Tasks : TaskSelect(idx)
    \/ \E idx \in Tasks : TaskEmit(idx)
    \/ PassDone

SpecSample == InitSample /\ [][NextSample]_vars

(***************************************************************************)
(* Properties of the sampling passes.                                      *)
(***************************************************************************)
\* The buffers after task idx has run alone, start to end.
TaskRun(B, idx) ==
    IF rejects(idx) THEN Apply(B, init_writes(idx))
    ELSE Apply(Apply(B, init_writes(idx)), emit_writes(idx))

\* The buffers after the tasks from, from + 1, ..., NumTasks - 1 have run
\* one after the other.
RECURSIVE RunSequentially(_, _)
RunSequentially(B, from) ==
    IF from >= NumTasks THEN B ELSE RunSequentially(TaskRun(B, from), from + 1)

PairBuffers ==
    {"rays", "throughputs", "new_throughputs", "bsdf_differentials",
     "edge_min_roughness"}

\* The slots of a buffer the claim gives to task idx: edge_records[idx],
\* slots 2*idx and 2*idx+1 of the ray, throughput, differential and
\* roughness buffers, and the task's block of channel multipliers.
OwnSlotsAsStated(buf, idx) ==
    IF buf = "edge_records" THEN {idx}
    ELSE IF buf \in PairBuffers \cup {"primary_ray_differentials"} THEN {2 * idx, 2 * idx + 1}
    ELSE IF buf = "channel_multipliers"
         THEN (2 * num_total_dimensions * idx)..(2 * num_total_dimensions * (idx + 1) - 1)
    ELSE {}

\* The same, with the one ray differential per task of the primary pass.
OwnSlots(buf, idx) ==
    IF buf \in {"edge_records", "primary_ray_differentials"} THEN {idx}
    ELSE IF buf \in PairBuffers THEN {2 * idx, 2 * idx + 1}
    ELSE IF buf = "channel_multipliers"
         THEN (2 * num_total_dimensions * idx)..(2 * num_total_dimensions * (idx + 1) - 1)
    ELSE {}

DisjointWrites ==
    \A w1, w2 \in write_log : (w1[1] = w2[1] /\ w1[2] = w2[2]) => w1[3] = w2[3]

SameAsSequential ==
    pc = "pass_done" =>
        buffers = RunSequentially(OutputBuffers(NumTasks, num_total_dimensions), 0)

\* C9 as stated: the task with index idx writes only edge_records[idx],
\* slots 2*idx and 2*idx+1 of the ray/throughput/differential/roughness
\* buffers and its own block of channel multipliers; the write sets of two
\* task indices are disjoint and every interleaving ends in the buffers of
\* the sequential run.
C9_WritesAsStated ==
    /\ \A w \in write_log : w[2] \in OwnSlotsAsStated(w[1], w[3])
    /\ DisjointWrites
    /\ SameAsSequential

\* C9, amended: as stated, except that the primary pass writes one ray
\* differential per task, primary_ray_differentials[idx].
C9_TasksOwnTheirSlots ==
    /\ \A w \in write_log : w[2] \in OwnSlots(w[1], w[3])
    /\ DisjointWrites
    /\ SameAsSequential

\* A pass has ended in which every task emitted its rays.
C9_Witness ==
    /\ pc = "pass_done"
    /\ \A idx \in Tasks : ~rejects(idx)
    /\ \A idx \in Tasks : buffers.rays[2 * idx + 1] = 
            IF pass = "primary" THEN <<"Ray", samples[idx].edge_sel, 1>>
            ELSE <<"Ray", active_pixels[idx], 1>>


(***************************************************************************)
(* accumulate_secondary_edge_derivatives: one task per index idx, the      *)
(* tasks running in any interleaving.  The statement                       *)
(*     d_points[pixel_id].position += dcolor_dp                            *)
(* is a load of the entry followed by a store of the sum.                  *)
(***************************************************************************)
\* The pairs edge_contribs[2 * idx + 0], edge_contribs[2 * idx + 1] of a task.
ContribPool == { <<0, 0>>, <<1, 0>>, <<1, 2>> }

\* DVertex{}
DVertexDefault == [shape_id |-> -1, vertex_id |-> -1, d_v |-> 0]

\* grad(p, x, edge_contrib): what it adds to dcolor_dp (and to dcolor_dv0,
\* dcolor_dv1), in units of the geometry factor.
grad(edge_contrib) == IF edge_contrib = 0 THEN 0 ELSE edge_contrib

\* dcolor_dp of task idx after the two calls of grad.
dcolor_dp(idx) == grad(edge_contribs[idx][1]) + grad(edge_contribs[idx][2])

InitAccum ==
    /\ pc = "parallel_for"
    /\ EdgeIdle
    /\ CalcIdle
    /\ DistIdle
    /\ TreeIdle
    /\ SampleIdle
    /\ StepIdle
    /\ pass = "accumulate"
    /\ task_pc = [idx \in Tasks |-> "init"]
    /\ active_pixels \in [Tasks -> Pixels]
    /\ edge_records \in [Tasks -> {-1, 0}]
    /\ edge_contribs \in [Tasks -> ContribPool]
    /\ d_points \in {[px \in Pixels |-> 0], [px \in Pixels |-> 5]}
    /\ d_points_init = d_points
    /\ d_vertices = [i \in 0..(2 * NumTasks - 1) |-> Stale]
    /\ loaded = [idx \in Tasks |-> 0]

\* operator()(idx): d_vertices[2 * idx + k] = DVertex{}; the early return
AccumInit(idx) ==
    /\ pc = "parallel_for"
    /\ task_pc[idx] = "init"
    /\ d_vertices' = [d_vertices EXCEPT ![pair_slot(idx, 0)] = DVertexDefault,
                                        ![pair_slot(idx, 1)] = DVertexDefault]
    /\ task_pc' = [task_pc EXCEPT ![idx] =
                      IF edge_records[idx] < 0 THEN "done" ELSE "load"]
    /\ UNCHANGED <<pc, pass, active_pixels, edge_records, edge_contribs, d_points,
                   d_points_init, loaded>>
    /\ UNCHANGED <<calcVars, edgeVars, distVars, treeVars, sampVars, stepVars>>

\* operator()(idx): the load of d_points[pixel_id].position
AccumLoad(idx) ==
    /\ pc = "parallel_for"
    /\ task_pc[idx] = "load"
    /\ loaded' = [loaded EXCEPT ![idx] = d_points[active_pixels[idx]]]
    /\ task_pc' = [task_pc EXCEPT ![idx] = "store"]
    /\ UNCHANGED <<pc, pass, active_pixels, edge_records, edge_contribs, d_points,
                   d_points_init, d_vertices>>
    /\ UNCHANGED <<calcVars, edgeVars, distVars, treeVars, sampVars, stepVars>>

\* operator()(idx): the store of the sum, and the task's d_vertices
AccumStore(idx) ==
    /\ pc = "parallel_for"
    /\ task_pc[idx] = "store"
    /\ d_points' = [d_points EXCEPT ![active_pixels[idx]] = loaded[idx] + dcolor_dp(idx)]
    /\ d_vertices' =
        [d_vertices EXCEPT
            ![pair_slot(idx, 0)] = [shape_id |-> edge_records[idx], vertex_id |-> 0,
                                    d_v |-> dcolor_dp(idx)],
            ![pair_slot(idx, 1)] = [shape_id |-> edge_records[idx], vertex_id |-> 1,
                                    d_v |-> dcolor_dp(idx)]]
    /\ task_pc' = [task_pc EXCEPT ![idx] = "done"]
    /\ UNCHANGED <<pc, pass, active_pixels, edge_records, edge_contribs,
                   d_points_init, loaded>>
    /\ UNCHANGED <<calcVars, edgeVars, distVars, treeVars, sampVars, stepVars>>

NextAccum ==
    \/ \E idx \in Tasks : AccumInit(idx)
    \/ \E idx \in Tasks : AccumLoad(idx)
    \/ \E idx \in Tasks : AccumStore(idx)
    \/ PassDone

SpecAccum == InitAccum /\ [][NextAccum]_vars

(***************************************************************************)
(* Properties of the accumulation pass.                                    *)
(***************************************************************************)
\* The sum of the contributions of the tasks below n that target pixel px
\* and do not return early.
RECURSIVE ContributionsTo(_, _)
ContributionsTo(px, n) ==
    IF n = 0 THEN 0
    ELSE ContributionsTo(px, n - 1)
         + (IF active_pixels[n - 1] = px /\ edge_records[n - 1] >= 0
            THEN dcolor_dp(n - 1) ELSE 0)

\* C10: for every interleaving of the tasks, the final d_points[p].position
\* is its initial value plus the sum of the dcolor_dp of all tasks idx with
\* active_pixels[idx] = p; no contribution is lost when two tasks target
\* the same entry.
C10_NoLostContribution ==
    pc = "pass_done" =>
        \A px \in Pixels : d_points[px] = d_points_init[px] + ContributionsTo(px, NumTasks)

(***************************************************************************)
(* primary_edge_sampler::operator() and update_primary_edge_weights,       *)
(* statement by statement, for one task index of the pass.                 *)
(***************************************************************************)
MaxTaskEdges == 2

\* The scenes of the pass: one to MaxTaskEdges edges.
TaskGeomLists == UNION { [0..(n - 1) -> GeomPool] : n \in 1..MaxTaskEdges }

PrimaryEdgeSample(sel, tt) == [edge_sel |-> sel, t |-> tt]

\* What the output buffers hold from the pass before: valid records, rays
\* and non-zero weights.
PreviousOutput(n, nd) ==
    [edge_records |-> [i \in 0..(n - 1) |-> [edge |-> 0, edge_pt |-> RInt(1)]],
     rays |-> [i \in 0..(2 * n - 1) |-> <<"Ray", 1, 1>>],
     throughputs |-> [i \in 0..(2 * n - 1) |-> RInt(7)],
     new_throughputs |-> [i \in 0..(2 * n - 1) |-> RInt(7)],
     channel_multipliers |-> [i \in 0..(2 * nd * n - 1) |-> RInt(7)],
     primary_ray_differentials |-> [i \in 0..(n - 1) |-> <<"RayDifferential", -1>>],
     bsdf_differentials |-> [i \in 0..(2 * n - 1) |-> <<"RayDifferential", -1>>],
     edge_min_roughness |-> [i \in 0..(2 * n - 1) |-> RInt(7)]]

\* d_rendered_image at the pixel of the edge point, per channel; the
\* radiance channels start at rd = 0.
DImages(nd) ==
    { [d \in 0..(nd - 1) |-> RInt(d + 1)],
      [d \in 0..(nd - 1) |-> IF d = 0 THEN RNeg(RNorm(1, 2)) ELSE RInt(0)] }

\* line_jacobian * dirac_jacobian of the fisheye camera.
Jacobians == { RInt(2), RNorm(1, 3) }

\* auto upper_weight = d_color / edges_pmf[edge_id]
upper_weight_of(d_color, p) == RDiv(d_color, p)

\* auto lower_weight = -d_color / edges_pmf[edge_id]
lower_weight_of(d_color, p) == RDiv(RNeg(d_color), p)

\* The stores of the non-fisheye branch.
primary_linear_writes(idx, e, d_rendered_image) ==
    LET p == primary_edges_pmf[e]
        nd == num_total_dimensions
    IN  { <<"edge_records", idx, [edge |-> e, edge_pt |-> samples[idx].t]>> }
        \cup { <<"rays", pair_slot(idx, k), <<"Ray", e, k>> >> : k \in {0, 1} }
        \cup { <<"throughputs", pair_slot(idx, 0), upper_weight_of(d_rendered_image[0], p)>>,
               <<"throughputs", pair_slot(idx, 1), lower_weight_of(d_rendered_image[0], p)>> }
        \cup { <<"channel_multipliers", channel_slot(idx, d, 0),
                 RDiv(d_rendered_image[d], p)>> : d \in 0..(nd - 1) }
        \cup { <<"channel_multipliers", channel_slot(idx, d, 1),
                 RDiv(RNeg(d_rendered_image[d]), p)>> : d \in 0..(nd - 1) }

\* The stores of the fisheye branch.
primary_fisheye_writes(idx, e, d_rendered_image, jacobian) ==
    LET p == primary_edges_pmf[e]
        nd == num_total_dimensions
    IN  { <<"edge_records", idx, [edge |-> e, edge_pt |-> samples[idx].t]>> }
        \cup { <<"rays", pair_slot(idx, k), <<"Ray", e, k>> >> : k \in {0, 1} }
        \cup { <<"throughputs", pair_slot(idx, 0),
                 RMul(upper_weight_of(d_rendered_image[0], p), jacobian)>>,
               <<"throughputs", pair_slot(idx, 1),
                 RMul(lower_weight_of(d_rendered_image[0], p), jacobian)>> }
        \cup { <<"channel_multipliers", channel_slot(idx, d, 0),
                 RDiv(RMul(d_rendered_image[d], jacobian), p)>> : d \in 0..(nd - 1) }
        \cup { <<"channel_multipliers", channel_slot(idx, d, 1),
                 RDiv(RMul(RNeg(d_rendered_image[d]), jacobian), p)>> : d \in 0..(nd - 1) }

\* The early return operator() takes, "none" if it reaches the stores.
primary_return(e, in_scr) ==
    IF ~edge_geom[e].project THEN "project"
    ELSE IF RLeq(primary_edges_pmf[e], RInt(0)) THEN "pmf"
    ELSE IF ~in_scr THEN "in_screen"
    ELSE "none"

\* primary_edge_sampler::operator()(idx); in_scr is what in_screen answers
\* for the edge point.
primary_edge_sampler(idx, in_scr, d_rendered_image, jacobian) ==
    LET e == primary_edge_id(idx)
        ret == primary_return(e, in_scr)
        stores == IF camera.fisheye
                  THEN primary_fisheye_writes(idx, e, d_rendered_image, jacobian)
                  ELSE primary_linear_writes(idx, e, d_rendered_image)
        ray_differential == { <<"primary_ray_differentials", idx, <<"RayDifferential", e>> >> }
    IN  [edge_id |-> e,
         cause |-> ret,
         divisions |-> IF ret = "none" THEN {primary_edges_pmf[e]} ELSE {},
         buffers |-> IF ret = "none"
                     THEN Apply(Apply(buffers, primary_init_writes(idx)),
                                stores \cup ray_differential)
                     ELSE Apply(buffers, primary_init_writes(idx))]

\* The edge an edge record names: shape 0, faces 2e and 2e + 1; the default
\* record names no edge.
EdgeOfRecord(rec) ==
    IF rec.edge = -1 THEN [shape_id |-> -1, f0 |-> -1, f1 |-> -1]
    ELSE [shape_id |-> 0, f0 |-> 2 * rec.edge, f1 |-> 2 * rec.edge + 1]

Intersection(sid, tri) == [shape_id |-> sid, tri_id |-> tri]

\* The intersections of the rays of a pass: all on a face of edge 0, all on
\* a face away from every edge, all on a face of edge 1.
IsectLists ==
    { [i \in 0..(2 * NumTasks - 1) |-> x] :
        x \in { Intersection(0, 0), Intersection(0, 9), Intersection(0, 3) } }

connected(isect, rec) ==
    /\ isect.shape_id = EdgeOfRecord(rec).shape_id
    /\ isect.tri_id = EdgeOfRecord(rec).f0 \/ isect.tri_id = EdgeOfRecord(rec).f1

\* primary_edge_weights_updater::operator()(idx), as stores
primary_edge_weights_updater(B, isects, idx) ==
    IF ~connected(isects[2 * idx + 0], B.edge_records[idx])
       /\ ~connected(isects[2 * idx + 1], B.edge_records[idx])
    THEN { <<"throughputs", pair_slot(idx, k), RInt(0)>> : k \in {0, 1} }
         \cup { <<"channel_multipliers", channel_slot(idx, d, k), RInt(0)>> :
                  d \in 0..(num_total_dimensions - 1), k \in {0, 1} }
    ELSE {}

\* Mutation: the call of the updater is not commented out.
update_primary_edge_weights_enabled(B, isects) ==
    Apply(B, UNION { primary_edge_weights_updater(B, isects, idx) : idx \in Tasks })

\* update_primary_edge_weights: the parallel_for over the updater is
\* commented out.
update_primary_edge_weights(B, isects) == B

\* The distribution the constructor leaves for the edges gl.
BuiltPrimaryPmf(gl) ==
    LET w == [i \in DOMAIN gl |-> primary_edge_weighter(gl[i])]
    IN  thrust_divides(w, thrust_reduce(w, Cardinality(DOMAIN gl)))

InitPrimaryTask ==
    /\ pc = "operator"
    /\ pass = "primary"
    /\ EdgeIdle
    /\ CalcIdle
    /\ TreeIdle
    /\ AccumIdle
    /\ use_edge_tree = TRUE
    /\ edge_tree = TRUE
    /\ edge_geom \in TaskGeomLists
    /\ primary_edges_pmf = BuiltPrimaryPmf(edge_geom)
    /\ primary_edges_cdf = thrust_exclusive_scan(primary_edges_pmf)
    /\ total_length = thrust_reduce([i \in DOMAIN edge_geom |->
                                        primary_edge_weighter(edge_geom[i])], NumEdges)
    /\ secondary_edges_pmf = NullBuffer
    /\ secondary_edges_cdf = NullBuffer
    /\ task \in Tasks
    /\ task_pc = <<>>
    /\ active_pixels = [idx \in Tasks |-> idx]
    /\ \E u \in Samples : samples = [idx \in Tasks |-> PrimaryEdgeSample(u, RNorm(1, 2))]
    /\ min_roughness = [px \in Pixels |-> RInt(0)]
    /\ num_total_dimensions = MaxDims
    /\ buffers = PreviousOutput(NumTasks, num_total_dimensions)
    /\ write_log = {}
    /\ camera \in { [fisheye |-> f] : f \in BOOLEAN }
    /\ edge_id = -1
    /\ divisions = {}
    /\ shading_isects = <<>>
    /\ cause = "none"
    /\ SecondaryIdle

\* What in_screen can answer for a point of edge e: a point of a segment
\* that clip_line finds wholly outside the screen is outside it.
InScreenAnswers(e) ==
    IF ~edge_geom[e].clip_line THEN {FALSE} ELSE BOOLEAN

\* primary_edge_sampler::operator()(task)
RunPrimaryTask ==
    /\ pc = "operator"
    /\ pass = "primary"
    /\ \E in_scr \in InScreenAnswers(primary_edge_id(task)), d_rendered_image \in DImages(num_total_dimensions),
          jacobian \in Jacobians :
        LET r == primary_edge_sampler(task, in_scr, d_rendered_image, jacobian)
        IN  /\ buffers' = r.buffers
            /\ edge_id' = r.edge_id
            /\ cause' = r.cause
            /\ divisions' = r.divisions
    /\ pc' = "sampled"
    /\ UNCHANGED <<task, camera, shading_isects>>
    /\ UNCHANGED <<edge_view, edge_sample_weight, resampleVars, solveVars, trips>>
    /\ UNCHANGED <<samples, min_roughness, num_total_dimensions, write_log>>
    /\ UNCHANGED <<calcVars, edgeVars, distVars, treeVars, taskVars, accVars>>

\* update_primary_edge_weights(scene, edge_records, edge_isects, ...)
UpdatePrimaryEdgeWeights ==
    /\ pc = "sampled"
    /\ pass = "primary"
    /\ \E isects \in IsectLists :
        /\ shading_isects' = isects
        /\ buffers' = update_primary_edge_weights(buffers, isects)
    /\ pc' = "updated"
    /\ UNCHANGED <<task, camera, edge_id, divisions, cause>>
    /\ UNCHANGED <<edge_view, edge_sample_weight, resampleVars, solveVars, trips>>
    /\ UNCHANGED <<samples, min_roughness, num_total_dimensions, write_log>>
    /\ UNCHANGED <<calcVars, edgeVars, distVars, treeVars, taskVars, accVars>>


(***************************************************************************)
(* Properties of the primary sampler.                                      *)
(***************************************************************************)
DefaultRecord == [edge |-> -1, edge_pt |-> RInt(0)]
NullRay == <<"Ray", 0, 0>>

\* The outputs of task idx of the primary pass are the zero-contribution
\* record: default edge record, zero throughputs, zero channel multipliers,
\* null rays.
PrimaryZeroContribution(idx) ==
    /\ buffers.edge_records[idx] = DefaultRecord
    /\ \A k \in {0, 1} :
        /\ buffers.throughputs[2 * idx + k] = RInt(0)
        /\ buffers.rays[2 * idx + k] = NullRay
    /\ \A i \in (2 * num_total_dimensions * idx)..(2 * num_total_dimensions * (idx + 1) - 1) :
        buffers.channel_multipliers[i] = RInt(0)

PrimaryTaskRan == pass = "primary" /\ pc = "sampled"

\* C12: in the primary pass, whenever projection of the selected edge fails
\* or its pmf is non-positive, the total edge weight being 0 included, the
\* task leaves the zero-contribution record and has made no division by
\* that pmf.
C12_ZeroRecordOnFailure ==
    (/\ PrimaryTaskRan
     /\ \/ ~edge_geom[edge_id].project
        \/ RLeq(primary_edges_pmf[edge_id], RInt(0))
        \/ REq(total_length, RInt(0)))
    => (PrimaryZeroContribution(task) /\ divisions = {})

\* C14: update_primary_edge_weights leaves every element of throughputs and
\* of channel_multipliers as it was, whatever the edge records and the
\* intersections are.
C14_UpdateLeavesWeights ==
    [][(pc = "sampled" /\ pc' = "updated") =>
          /\ buffers'.throughputs = buffers.throughputs
          /\ buffers'.channel_multipliers = buffers.channel_multipliers]_vars

\* The update has run on a task with non-zero weights and neither of its
\* two intersections on a face of its edge.
C14_Witness ==
    /\ pc = "updated"
    /\ cause = "none"
    /\ RLt(RInt(0), buffers.throughputs[2 * task])
    /\ RLt(RInt(0), buffers.channel_multipliers[2 * num_total_dimensions * task])
    /\ ~connected(shading_isects[2 * task], buffers.edge_records[task])
    /\ ~connected(shading_isects[2 * task + 1], buffers.edge_records[task])

\* The selection of the primary sampler, for the sample u of the task:
\* the index is in range, it is the largest i with cdf[i] <= u, edge i is
\* the one selected exactly when cdf[i] <= u < cdf[i] + pmf[i], and when
\* the PMF sums to 1 the selected edge has a pmf other than 0.
SelectsByCdf ==
    LET u == samples[task].edge_sel
        below == { i \in EdgeIds : RLeq(primary_edges_cdf[i], u) }
    IN  /\ edge_id \in 0..(NumEdges - 1)
        /\ edge_id \in below
        /\ \A i \in below : i <= edge_id
        /\ \A i \in EdgeIds :
            (edge_id = i) <=>
                /\ RLeq(primary_edges_cdf[i], u)
                /\ RLt(u, RAdd(primary_edges_cdf[i], primary_edges_pmf[i]))
        /\ REq(thrust_reduce(primary_edges_pmf, NumEdges), RInt(1)) =>
                ~REq(primary_edges_pmf[edge_id], RInt(0))

M == 64

\* for (int it = 0; it < 20; it++)
SolveIterations == 20

\* length_squared(v1 - v0) > 1e-10f.  The scenes of a task have their
\* coordinates in units of 1e-5, so squared lengths are in units of 1e-10.
DegenerateLengthSquared == 1

length_squared(v) == dot(v, v)

SecondaryEdgeSample(sel, rsel, comp, tt) ==
    [edge_sel |-> sel, resample_sel |-> rsel, bsdf_component |-> comp, t |-> tt]

\* The samples of a task: every edge selector with t = 1/255, which the
\* root solve hits on its second midpoint, and one with t = 1/2, which
\* bisection does not reach within the tolerance; resample_sel is 1/2 for
\* these, and 0 and 1, the ends of its range, for two more.
SecondarySamples ==
    { SecondaryEdgeSample(u, RNorm(1, 2), RInt(0), RNorm(1, 255)) : u \in Samples }
    \cup { SecondaryEdgeSample(RInt(0), RNorm(1, 2), RInt(0), RNorm(1, 2)) }
    \cup { SecondaryEdgeSample(RInt(0), r, RInt(0), RNorm(1, 255)) : r \in {RInt(0), RInt(1)} }

\* bool same_tri = edge.shape_id == shading_isect.shape_id &&
\*     (edge.v0 == shading_isect.tri_id || edge.v1 == shading_isect.tri_id)
same_tri(edge, shading_isect) ==
    /\ edge.shape_id = shading_isect.shape_id
    /\ (edge.v0 = shading_isect.tri_id \/ edge.v1 = shading_isect.tri_id)

\* The intersection every pixel of a secondary pass is shaded at:
\* triangle 1 of shape 0.
ShadingIsect == Intersection(0, 1)

\* An edge as the edge set stores it, and what the queries on it answer from
\* the shading point: is_silhouette(shapes, shading_point.position, edge), the
\* heights v0o[2] and v1o[2] of the endpoints over the tangent plane,
\* length_squared(v1 - v0), the LTC integral Il1 - Il0 over the clipped
\* edge, and the line parameters l0 and l1 of the clipped endpoints.
View(silh, edge, z0, z1, lsq, ltc, a, b) ==
    [is_silhouette |-> silh, edge |-> edge, v0o_z |-> z0, v1o_z |-> z1,
     length_squared |-> lsq, ltc |-> ltc, l0 |-> a, l1 |-> b]

\* An edge above the plane, one that is no silhouette, one on and below the
\* plane, one with an endpoint clipped to the plane (all four between
\* vertices 2 and 3 of shape 0, on triangles 4 and 5), and edges above the
\* plane that are: an edge of triangle 1 between vertices 0 and 1, an edge
\* of triangle 1 between vertices 2 and 3, an edge of triangles 4 and 5 that
\* ends in vertex 1, an edge of triangle 1 of another shape, and an edge
\* whose LTC integral comes out negative.
\* length_squared is that of the edge looked at.
ViewPool ==
    { View(TRUE, Edge(0, 2, 3, 4, 5), 1, 1, 4, RInt(1), RInt(0), RInt(4)),
      View(FALSE, Edge(0, 2, 3, 4, 5), 1, 1, 4, RInt(1), RInt(0), RInt(4)),
      View(TRUE, Edge(0, 2, 3, 4, 5), 0, -1, 4, RInt(1), RInt(0), RInt(4)),
      View(TRUE, Edge(0, 2, 3, 4, 5), -1, 1, 4, RNorm(1, 2), RInt(-2), RInt(2)),
      View(TRUE, Edge(0, 0, 1, 1, 4), 1, 1, 4, RInt(1), RInt(0), RInt(4)),
      View(TRUE, Edge(0, 2, 3, 1, 4), 1, 1, 4, RInt(1), RInt(0), RInt(4)),
      View(TRUE, Edge(0, 1, 3, 4, 5), 1, 1, 4, RInt(1), RInt(0), RInt(4)),
      View(TRUE, Edge(1, 2, 3, 1, -1), 1, 1, 4, RInt(1), RInt(0), RInt(4)),
      View(TRUE, Edge(0, 2, 3, 4, 5), 1, 1, 4, RInt(-1), RInt(0), RInt(4)) }

\* The edge tree branch reads neither the indices of an edge nor Il1 - Il0.
TreeViewPool ==
    { v \in ViewPool : v.edge = Edge(0, 2, 3, 4, 5) /\ RLt(RInt(0), v.ltc) }

\* The scenes of the resampling path: one edge; an edge of length 1e-5 and
\* a longer one; two edges of length zero; an edge and one of length zero.
ResampleGeomLists ==
    { (0 :> EdgeGeom(TRUE, TRUE, TRUE, 2, 3, 2)),
      (0 :> EdgeGeom(TRUE, TRUE, TRUE, 1, 1, 1) @@ 1 :> EdgeGeom(TRUE, TRUE, TRUE, 2, 3, 2)),
      (0 :> EdgeGeom(TRUE, TRUE, TRUE, 0, 0, 1) @@ 1 :> EdgeGeom(TRUE, TRUE, TRUE, 0, 0, 1)),
      (0 :> EdgeGeom(TRUE, TRUE, TRUE, 2, 3, 2) @@ 1 :> EdgeGeom(TRUE, TRUE, TRUE, 0, 0, 1)) }

\* The scenes of the tree path; the last one has an edge of length zero,
\* whose leaf has weighted length 0.
TaskSceneLists ==
    { (0 :> SceneEdge(<<0, 0, 1>>, <<1, 0, 2>>, 1, TRUE)
       @@ 1 :> SceneEdge(<<0, 1, 1>>, <<0, 2, 1>>, 2, FALSE)),
      (0 :> SceneEdge(<<0, 1, 1>>, <<0, 2, 1>>, 2, FALSE)
       @@ 1 :> SceneEdge(<<0, 0, -1>>, <<0, 1, -2>>, 1, FALSE)
       @@ 2 :> SceneEdge(<<1, 0, 0>>, <<0, 1, 0>>, 1, TRUE)),
      (0 :> SceneEdge(<<0, 0, 1>>, <<1, 0, 2>>, 1, TRUE)
       @@ 1 :> SceneEdge(<<0, 1, 1>>, <<0, 1, 1>>, 0, FALSE)) }

\* The distribution the constructor leaves for the edges gl when it builds
\* no edge tree.
BuiltSecondaryPmf(gl) ==
    LET w == [i \in DOMAIN gl |-> secondary_edge_weighter(gl[i])]
    IN  thrust_divides(w, thrust_reduce(w, Cardinality(DOMAIN gl)))

\* if (edges_pmf != nullptr)
takes_resampling_path == secondary_edges_pmf # NullBuffer

\* modulo(x, Real(1)) for x in [0, 2)
modulo1(x) == IF RLt(x, RInt(1)) THEN x ELSE RSub(x, RInt(1))

\* The candidate of iteration i of the first resampling loop.
candidate_edge(idx, i) ==
    clamp(upper_bound(secondary_edges_cdf,
                      modulo1(RAdd(samples[idx].edge_sel, RNorm(i, M)))) - 1,
          0, Cardinality(DOMAIN secondary_edges_pmf) - 1)

\* edge_weights[sample_id] of a candidate e
candidate_weight(e) ==
    LET v == edge_view[e]
    IN  IF /\ RLt(RInt(0), secondary_edges_pmf[e])
           /\ v.is_silhouette
           /\ ~same_tri(v.edge, shading_isects[active_pixels[task]])
           /\ v.length_squared > DegenerateLengthSquared
           /\ (v.v0o_z > 0 \/ v.v1o_z > 0)
        THEN RMax(RDiv(v.ltc, secondary_edges_pmf[e]), RInt(0))
        ELSE RInt(0)

\* Mutation: the loop ends one iteration early.
first_loop_iterations_short == 0..(M - 2)

\* for (int sample_id = 0; sample_id < M; sample_id++)
first_loop_iterations == 0..(M - 1)

\* w[lo] + ... + w[hi]
RECURSIVE weight_sum_of(_, _, _)
weight_sum_of(w, lo, hi) ==
    IF lo = hi THEN w[lo]
    ELSE LET mid == (lo + hi) \div 2
         IN  RAdd(weight_sum_of(w, lo, mid), weight_sum_of(w, mid + 1, hi))

\* The first resampling loop: the arrays edge_ids, edge_weights and
\* resample_cdf it fills, and the number of times its body runs.
first_resampling_loop(idx) ==
    LET n == Cardinality(first_loop_iterations)
        ids == [i \in 1..n |-> candidate_edge(idx, i - 1)]
        w == [i \in 1..n |-> candidate_weight(ids[i])]
    IN  [edge_ids |-> ids,
         edge_weights |-> w,
         resample_cdf |-> [i \in 1..n |-> weight_sum_of(w, 1, i)],
         trips |-> n]

\* Mutation: resample_sel is not scaled by the total weight.
resample_u_unscaled == samples[task].resample_sel

\* auto resample_u = edge_sample.resample_sel * resample_cdf[M - 1]
resample_u == RMul(samples[task].resample_sel, resample_cdf[M])

\* line_cdf(x) of the selected edge: increasing from 0 at l0 to 1 at l1,
\* here in two straight pieces that meet at (l1 - 1/64, 1/64): the integrand
\* is concentrated near one end of the edge.
line_cdf(x) ==
    LET v == edge_view[edge_id]
        knee == RSub(v.l1, RNorm(1, 64))
    IN  IF RLeq(x, knee)
        THEN RMul(RNorm(1, 64), RDiv(RSub(x, v.l0), RSub(knee, v.l0)))
        ELSE RAdd(RNorm(1, 64),
                  RMul(RNorm(63, 64), RDiv(RSub(x, knee), RSub(v.l1, knee))))

\* The solution of line_cdf(x) = edge_sample.t
solution ==
    LET v == edge_view[edge_id]
        knee == RSub(v.l1, RNorm(1, 64))
        tt == samples[task].t
    IN  IF RLeq(tt, RNorm(1, 64))
        THEN RAdd(v.l0, RMul(RMul(tt, RInt(64)), RSub(knee, v.l0)))
        ELSE RAdd(knee, RMul(RDiv(RSub(tt, RNorm(1, 64)), RNorm(63, 64)),
                             RSub(v.l1, knee)))

\* fabs(value) < 1e-5f
near_zero(value) ==
    \/ value.n = 0 /\ value.d > 0
    \/ /\ value.d > 0
       /\ value.n # 0
       /\ \/ value.d \div Abs(value.n) > 100000
          \/ value.d \div Abs(value.n) = 100000 /\ value.d % Abs(value.n) > 0

\* 0.5f * (lb + ub)
midpoint(a, b) == RMul(RNorm(1, 2), RAdd(a, b))

\* Mutation: the iterate is used as the Newton step left it.
in_bracket_unchecked(x, a, b) == x

\* if (!(l >= lb && l <= ub)) l = 0.5f * (lb + ub);
in_bracket(x, a, b) == IF ~(RLeq(a, x) /\ RLeq(x, b)) THEN midpoint(a, b) ELSE x

\* What l -= value / derivative can leave in l: the derivative is not
\* accurate, so the step can land anywhere; NaN, infinity, a point
\* outside the bracket, a point inside it and the solution stand for the
\* cases.
NewtonSteps(a, b) ==
    { NaN, RNorm(1, 0), RAdd(b, RInt(1)), midpoint(a, b), solution }

\* line_pdf(l) at the solved l: zero where the edge touches the plane.
LinePdfs == { RInt(0), RNorm(1, 4) }

\* sum(eval_bsdf)
BsdfSums == { RInt(0), RInt(1) }

\* m_pmf of a material that is not black: the pmf of the lobe taken.
LobePmfs == { RNorm(1, 2) }

\* d_color of the pixel (throughput is 1)
DColors == { RInt(1), RNeg(RNorm(1, 2)) }

\* auto edge_weight = edge_sample_weight / (m_pmf * line_pdf(l));
\* auto nt = throughput * eval_bsdf * d_color * edge_weight;
new_throughput(eval_bsdf, d_color, m_pmf, pdf) ==
    RMul(RMul(eval_bsdf, d_color), RDiv(edge_sample_weight, RMul(m_pmf, pdf)))

\* new_throughputs[2 * idx + 1] = -nt
lower_throughput(nt) == RNeg(nt)

\* "Setup output", the stores of a task that passed every test; the rays
\* leave the edge point and are not the null ray.
secondary_writes(idx, nt) ==
    { <<"edge_records", idx, [edge |-> edge_id, edge_pt |-> l]>> }
    \cup { <<"rays", pair_slot(idx, k), <<"Ray", 1 + active_pixels[idx], k>> >> : k \in {0, 1} }
    \cup { <<"bsdf_differentials", pair_slot(idx, k),
             <<"RayDifferential", 1 + active_pixels[idx]>> >> : k \in {0, 1} }
    \cup { <<"new_throughputs", pair_slot(idx, 0), nt>>,
           <<"new_throughputs", pair_slot(idx, 1), lower_throughput(nt)>> }

InitSecondaryTask ==
    /\ pc = "operator"
    /\ pass = "secondary"
    /\ EdgeIdle
    /\ CalcIdle
    /\ AccumIdle
    /\ primary_edges_pmf = NullBuffer
    /\ primary_edges_cdf = NullBuffer
    /\ total_length = RInt(0)
    /\ node = NullNode
    /\ sample = RInt(0)
    /\ pmf = RInt(0)
    /\ sampled_edge_id = -1
    /\ path = <<>>
    /\ \/ /\ use_edge_tree = FALSE
          /\ edge_tree = FALSE
          /\ edge_geom \in ResampleGeomLists
          /\ secondary_edges_pmf = BuiltSecondaryPmf(edge_geom)
          /\ secondary_edges_cdf = thrust_exclusive_scan(secondary_edges_pmf)
          /\ scene_edges = <<>>
          /\ edge_tree_roots = [cs_bvh_root |-> NullNode, ncs_bvh_root |-> NullNode]
          /\ shading_point = [position |-> <<0, 0, 0>>, n |-> <<0, 0, 1>>]
          /\ \E v \in ViewPool :
                edge_view = [e \in DOMAIN edge_geom |->
                    [v EXCEPT !.length_squared =
                        edge_geom[e].distance * edge_geom[e].distance]]
       \/ /\ use_edge_tree = TRUE
          /\ edge_tree = TRUE
          /\ edge_geom = <<>>
          /\ secondary_edges_pmf = NullBuffer
          /\ secondary_edges_cdf = NullBuffer
          /\ scene_edges \in TaskSceneLists
          /\ edge_tree_roots = EdgeTreeRoots(scene_edges)
          /\ shading_point = [position |-> <<0, 0, 0>>, n |-> <<0, 0, 1>>]
          /\ \E v \in TreeViewPool :
                edge_view = [e \in DOMAIN scene_edges |->
                    [v EXCEPT !.length_squared =
                        length_squared(VSub(scene_edges[e].v1, scene_edges[e].v0))]]
    /\ task \in Tasks
    /\ task_pc = <<>>
    /\ active_pixels = [idx \in Tasks |-> idx]
    /\ \E s \in SecondarySamples : samples = [idx \in Tasks |-> s]
    /\ \E r \in {RInt(0), RInt(1)} : min_roughness = [px \in Pixels |-> r]
    /\ num_total_dimensions = MaxDims
    /\ buffers = PreviousOutput(NumTasks, num_total_dimensions)
    /\ write_log = {}
    /\ camera = [fisheye |-> FALSE]
    /\ edge_id = -1
    /\ divisions = {}
    /\ shading_isects = [px \in Pixels |-> ShadingIsect]
    /\ cause = "none"
    /\ edge_sample_weight = RInt(0)
    /\ ResampleIdle
    /\ SolveIdle
    /\ trips = NoTrips

\* The task returns early for the reason c; its locals end with it.
Return(c) ==
    /\ cause' = c
    /\ pc' = "returned"

\* operator()(task) up to the strategy branch: "Initialize output", the
\* roughness test, the black material test, the first resampling loop.
SecondaryStart ==
    /\ pc = "operator"
    /\ pass = "secondary"
    /\ buffers' = Apply(buffers, secondary_init_writes(task))
    /\ \E weight_sum \in {RInt(0), RInt(1)} :
        IF RLt(RNorm(1, 100), min_roughness[active_pixels[task]]) THEN
            /\ Return("roughness")
            /\ UNCHANGED <<sample, resampleVars, trips>>
        ELSE IF RLeq(weight_sum, RInt(0)) THEN
            /\ Return("black")
            /\ UNCHANGED <<sample, resampleVars, trips>>
        ELSE IF takes_resampling_path THEN
            LET r == first_resampling_loop(task)
            IN  /\ edge_ids' = r.edge_ids
                /\ edge_weights' = r.edge_weights
                /\ resample_cdf' = r.resample_cdf
                /\ trips' = [trips EXCEPT !.first = r.trips]
                /\ pc' = "resampled"
                /\ UNCHANGED <<cause, sample, sample_id, resample_id>>
        ELSE
            /\ sample' = samples[task].edge_sel
            /\ pc' = "sample_edge_roots"
            /\ UNCHANGED <<cause, resampleVars, trips>>
    /\ UNCHANGED <<task, camera, edge_id, divisions, shading_isects>>
    /\ UNCHANGED <<edge_view, edge_sample_weight, solveVars>>
    /\ UNCHANGED <<samples, min_roughness, num_total_dimensions, write_log>>
    /\ UNCHANGED <<scene_edges, edge_tree_roots, shading_point, node, pmf,
                   sampled_edge_id, path>>
    /\ UNCHANGED <<calcVars, edgeVars, distVars, taskVars, accVars>>

\* if (resample_cdf[M - 1] <= 0) return; and the start of the second loop
ResampleTotal ==
    /\ pc = "resampled"
    /\ IF RLeq(resample_cdf[M], RInt(0)) THEN
            /\ Return("no_edge")
            /\ edge_ids' = <<>>
            /\ edge_weights' = <<>>
            /\ resample_cdf' = <<>>
            /\ UNCHANGED <<sample_id, resample_id>>
       ELSE /\ pc' = "resample_pick"
            /\ sample_id' = 0
            /\ resample_id' = -1
            /\ UNCHANGED <<cause, edge_ids, edge_weights, resample_cdf>>
    /\ UNCHANGED <<task, camera, edge_id, divisions, shading_isects>>
    /\ UNCHANGED <<edge_view, edge_sample_weight, solveVars, trips>>
    /\ UNCHANGED <<calcVars, edgeVars, distVars, treeVars, taskVars, sampVars, accVars>>

\* One iteration of the second resampling loop:
\* if (resample_u <= resample_cdf[sample_id]) { resample_id = sample_id; break; }
ResamplePick ==
    /\ pc = "resample_pick"
    /\ sample_id < M
    /\ IF RLeq(resample_u, resample_cdf[sample_id + 1])
       THEN /\ resample_id' = sample_id
            /\ pc' = "resample_picked"
            /\ UNCHANGED sample_id
       ELSE /\ sample_id' = sample_id + 1
            /\ UNCHANGED <<pc, resample_id>>
    /\ trips' = [trips EXCEPT !.second = @ + 1]
    /\ UNCHANGED <<edge_ids, edge_weights, resample_cdf>>
    /\ UNCHANGED <<primVars, edge_view, edge_sample_weight, solveVars>>
    /\ UNCHANGED <<calcVars, edgeVars, distVars, treeVars, taskVars, sampVars, accVars>>

\* After the second loop: the test of the picked candidate and the weight
\* of the selection.  With resample_id = -1 the test reads edge_weights[-1]
\* and then finds resample_id == -1, so the task returns.
ResampleDone ==
    /\ \/ pc = "resample_picked"
       \/ pc = "resample_pick" /\ sample_id = M
    /\ IF resample_id = -1 \/ RLeq(edge_weights[resample_id + 1], RInt(0)) THEN
            /\ Return("no_edge")
            /\ UNCHANGED <<edge_id, edge_sample_weight>>
       ELSE /\ edge_sample_weight' =
                    RDiv(RDiv(resample_cdf[M], RInt(M)),
                         RMul(edge_weights[resample_id + 1],
                              secondary_edges_pmf[edge_ids[resample_id + 1]]))
            /\ edge_id' = edge_ids[resample_id + 1]
            /\ pc' = "selected"
            /\ UNCHANGED cause
    /\ sample_id' = 0
    /\ edge_ids' = <<>>
    /\ edge_weights' = <<>>
    /\ resample_cdf' = <<>>
    /\ resample_id' = -1
    /\ UNCHANGED <<task, camera, divisions, shading_isects>>
    /\ UNCHANGED <<edge_view, solveVars, trips>>
    /\ UNCHANGED <<calcVars, edgeVars, distVars, treeVars, taskVars, sampVars, accVars>>

\* After sample_edge(edge_tree_roots, ...) has returned:
\* if (edge_id == -1) return; edge_sample_weight = 1 / pmf;
SelectedByTree ==
    /\ pc = "sampled"
    /\ pass = "secondary"
    /\ IF sampled_edge_id = -1 THEN
            /\ Return("no_edge")
            /\ UNCHANGED <<edge_id, edge_sample_weight>>
       ELSE /\ edge_id' = sampled_edge_id
            /\ edge_sample_weight' = RDiv(RInt(1), pmf)
            /\ pc' = "selected"
            /\ UNCHANGED cause
    /\ node' = NullNode
    /\ sample' = RInt(0)
    /\ pmf' = RInt(0)
    /\ sampled_edge_id' = -1
    /\ path' = <<>>
    /\ UNCHANGED <<scene_edges, edge_tree_roots, shading_point>>
    /\ UNCHANGED <<task, camera, divisions, shading_isects>>
    /\ UNCHANGED <<edge_view, resampleVars, solveVars, trips>>
    /\ UNCHANGED <<calcVars, edgeVars, distVars, taskVars, sampVars, accVars>>

\* The tests on the selected edge and the start of the root solve:
\* silhouette, both endpoints on or below the plane, lb, ub and the first l.
EdgeGuards ==
    /\ pc = "selected"
    /\ LET v == edge_view[edge_id]
           lo == IF RLt(v.l1, v.l0) THEN v.l1 ELSE v.l0
           hi == IF RLt(v.l1, v.l0) THEN v.l0 ELSE v.l1
       IN  IF ~v.is_silhouette THEN
                /\ Return("silhouette")
                /\ UNCHANGED solveVars
           ELSE IF v.v0o_z <= 0 /\ v.v1o_z <= 0 THEN
                /\ Return("below")
                /\ UNCHANGED solveVars
           ELSE /\ lb' = lo
                /\ ub' = hi
                /\ l' = midpoint(lo, hi)
                /\ it' = 0
                /\ pc' = "solve"
                /\ UNCHANGED cause
    /\ UNCHANGED <<task, camera, edge_id, divisions, shading_isects>>
    /\ UNCHANGED <<edge_view, edge_sample_weight, resampleVars, trips>>
    /\ UNCHANGED <<calcVars, edgeVars, distVars, treeVars, taskVars, sampVars, accVars>>

\* The head of an iteration of the root solve: l is put back into the
\* bracket.
SolveBracket ==
    /\ pc = "solve"
    /\ it < SolveIterations
    /\ l' = in_bracket(l, lb, ub)
    /\ pc' = "solve_eval"
    /\ trips' = [trips EXCEPT !.solve = @ + 1]
    /\ UNCHANGED <<lb, ub, it>>
    /\ UNCHANGED <<primVars, edge_view, edge_sample_weight, resampleVars>>
    /\ UNCHANGED <<calcVars, edgeVars, distVars, treeVars, taskVars, sampVars, accVars>>

\* The rest of the iteration: the value at l, the break, the update of the
\* bracket and the Newton step.
SolveEval ==
    /\ pc = "solve_eval"
    /\ LET value == RSub(line_cdf(l), samples[task].t)
           new_lb == IF RLt(RInt(0), value) THEN lb ELSE l
           new_ub == IF RLt(RInt(0), value) THEN l ELSE ub
       IN  IF near_zero(value) \/ it = SolveIterations - 1 THEN
                /\ pc' = "solved"
                /\ UNCHANGED <<lb, ub, l, it>>
           ELSE /\ lb' = new_lb
                /\ ub' = new_ub
                /\ \E step \in NewtonSteps(new_lb, new_ub) : l' = step
                /\ it' = it + 1
                /\ pc' = "solve"
    /\ UNCHANGED <<primVars, edge_view, edge_sample_weight, resampleVars, trips>>
    /\ UNCHANGED <<calcVars, edgeVars, distVars, treeVars, taskVars, sampVars, accVars>>

\* After the root solve: the tests of line_pdf(l) and of the BSDF, and
\* "Setup output".
SecondaryFinish ==
    /\ pc = "solved"
    /\ \E pdf \in LinePdfs, eval_bsdf \in BsdfSums, d_color \in DColors,
          m_pmf \in LobePmfs :
        IF RLeq(pdf, RInt(0)) THEN
            /\ Return("line_pdf")
            /\ UNCHANGED buffers
        ELSE IF RLt(eval_bsdf, RNorm(1, 1000000)) THEN
            /\ Return("bsdf")
            /\ UNCHANGED buffers
        ELSE
            /\ buffers' = Apply(buffers,
                    secondary_writes(task, new_throughput(eval_bsdf, d_color, m_pmf, pdf)))
            /\ pc' = "returned"
            /\ UNCHANGED cause
    /\ UNCHANGED <<task, camera, edge_id, divisions, shading_isects>>
    /\ UNCHANGED <<edge_view, edge_sample_weight, resampleVars, solveVars, trips>>
    /\ UNCHANGED <<samples, min_roughness, num_total_dimensions, write_log>>
    /\ UNCHANGED <<calcVars, edgeVars, distVars, treeVars, taskVars, accVars>>

InitTask == InitPrimaryTask \/ InitSecondaryTask

NextTask ==
    \/ RunPrimaryTask
    \/ UpdatePrimaryEdgeWeights
    \/ SecondaryStart
    \/ ResampleTotal
    \/ ResamplePick
    \/ ResampleDone
    \/ sample_edge_roots
    \/ sample_edge_node
    \/ SelectedByTree
    \/ EdgeGuards
    \/ SolveBracket
    \/ SolveEval
    \/ SecondaryFinish

SpecTask == InitTask /\ [][NextTask]_vars

(***************************************************************************)
(* Properties of the secondary task.                                       *)
(***************************************************************************)
SecondaryTaskReturned == pass = "secondary" /\ pc = "returned"

\* The outputs of task idx of the secondary pass are the neutral ones: zero
\* new throughputs, null rays, default edge record.
SecondaryZeroContribution(idx) ==
    /\ buffers.edge_records[idx] = DefaultRecord
    /\ \A k \in {0, 1} :
        /\ buffers.new_throughputs[2 * idx + k] = RInt(0)
        /\ buffers.rays[2 * idx + k] = NullRay

\* No slot of another task of the batch differs from what it held before.
OtherTasksUntouched ==
    LET before == PreviousOutput(NumTasks, num_total_dimensions)
    IN  \A o \in Tasks \ {task} :
            /\ buffers.edge_records[o] = before.edge_records[o]
            /\ \A k \in {0, 1} :
                /\ buffers.new_throughputs[2 * o + k] = before.new_throughputs[2 * o + k]
                /\ buffers.rays[2 * o + k] = before.rays[2 * o + k]
                /\ buffers.bsdf_differentials[2 * o + k] = before.bsdf_differentials[2 * o + k]
                /\ buffers.edge_min_roughness[2 * o + k] = before.edge_min_roughness[2 * o + k]

\* The selected edge is degenerate by the test of the sampler itself.
SelectedEdgeDegenerate ==
    /\ edge_id # -1
    /\ edge_view[edge_id].length_squared <= DegenerateLengthSquared

\* One of the failure conditions of the secondary sampler was met by the
\* task that returned.
FailureConditionMet ==
    \/ cause \in {"roughness", "black", "no_edge", "silhouette", "below",
                  "line_pdf", "bsdf"}
    \/ SelectedEdgeDegenerate

\* C11: a secondary task that meets any failure condition (roughness above
\* 1e-2, black material, no edge selected, not a silhouette, both endpoints
\* on or below the tangent plane, degenerate edge, line pdf <= 0, BSDF below
\* 1e-6) ends with zero new throughputs, null rays and the default edge
\* record, and changes no slot of another task.
C11_FailureIsNeutral ==
    (SecondaryTaskReturned /\ FailureConditionMet)
    => (SecondaryZeroContribution(task) /\ OtherTasksUntouched)

\* The part of C11 the code keeps: every early return is neutral.
C11_EarlyReturnIsNeutral ==
    (SecondaryTaskReturned /\ cause # "none")
    => (SecondaryZeroContribution(task) /\ OtherTasksUntouched)

\* The weight stored for the lower side equals the negation of the weight
\* stored for the upper side, as the comparison of two Reals finds it.
IsNegationOf(lower, upper) == REq(lower, RNeg(upper))

PrimaryAntithetic(idx) ==
    /\ IsNegationOf(buffers.throughputs[2 * idx + 1], buffers.throughputs[2 * idx])
    /\ \A d \in 0..(num_total_dimensions - 1) :
        IsNegationOf(buffers.channel_multipliers[channel_slot(idx, d, 1)],
                     buffers.channel_multipliers[channel_slot(idx, d, 0)])

SecondaryAntithetic(idx) ==
    IsNegationOf(buffers.new_throughputs[2 * idx + 1], buffers.new_throughputs[2 * idx])

\* C13: after the primary and after the secondary task, on every path, the
\* weight of the lower side is the negation of the weight of the upper side,
\* and in the primary pass every lower channel multiplier is the negation of
\* the matching upper one.
C13_Antithetic ==
    /\ PrimaryTaskRan => PrimaryAntithetic(task)
    /\ SecondaryTaskReturned => SecondaryAntithetic(task)

\* The part of C13 the code keeps: the weights are antithetic whenever the
\* pmf of the selected primary edge is a number.
C13_AntitheticOfNumbers ==
    /\ (PrimaryTaskRan /\ primary_edges_pmf[edge_id].d # 0) => PrimaryAntithetic(task)
    /\ SecondaryTaskReturned => SecondaryAntithetic(task)

\* The contribution of the primary task idx is zero: both weights and every
\* channel multiplier compare equal to 0.
PrimaryContributionZero(idx) ==
    /\ \A k \in {0, 1} : REq(buffers.throughputs[2 * idx + k], RInt(0))
    /\ \A i \in (2 * num_total_dimensions * idx)..(2 * num_total_dimensions * (idx + 1) - 1) :
        REq(buffers.channel_multipliers[i], RInt(0))

SecondaryContributionZero(idx) ==
    \A k \in {0, 1} : REq(buffers.new_throughputs[2 * idx + k], RInt(0))

SomeWeightPositive(weighter(_)) ==
    \E o \in DOMAIN edge_geom : RLt(RInt(0), weighter(edge_geom[o]))

\* C15: an edge of length zero has weight 0 in the primary and in the
\* secondary weighting pass, has pmf 0 in a built distribution in which some
\* other edge has positive weight, and is never emitted with a non-zero
\* contribution, neither by the primary sampler nor by the resampling path
\* nor by the tree-descent path of the secondary sampler.
C15_ZeroLengthNeverEmitted ==
    /\ \A e \in DOMAIN edge_geom : edge_geom[e].distance = 0 =>
        /\ REq(primary_edge_weighter(edge_geom[e]), RInt(0))
        /\ REq(secondary_edge_weighter(edge_geom[e]), RInt(0))
        /\ (primary_edges_pmf # NullBuffer /\ SomeWeightPositive(primary_edge_weighter))
            => REq(primary_edges_pmf[e], RInt(0))
        /\ (secondary_edges_pmf # NullBuffer /\ SomeWeightPositive(secondary_edge_weighter))
            => REq(secondary_edges_pmf[e], RInt(0))
    /\ (PrimaryTaskRan /\ edge_geom[edge_id].distance = 0)
        => PrimaryContributionZero(task)
    /\ (SecondaryTaskReturned /\ edge_id # -1 /\ edge_view[edge_id].length_squared = 0)
        => SecondaryContributionZero(task)
    /\ (SecondaryTaskReturned /\ ~SecondaryContributionZero(task))
        => edge_view[buffers.edge_records[task].edge].length_squared # 0

\* The part of C15 the code keeps: the same, for a primary distribution
\* whose total weight is positive.
C15_ZeroLengthOfPositiveTotal ==
    /\ \A e \in DOMAIN edge_geom : edge_geom[e].distance = 0 =>
        /\ REq(primary_edge_weighter(edge_geom[e]), RInt(0))
        /\ REq(secondary_edge_weighter(edge_geom[e]), RInt(0))
        /\ (primary_edges_pmf # NullBuffer /\ SomeWeightPositive(primary_edge_weighter))
            => REq(primary_edges_pmf[e], RInt(0))
        /\ (secondary_edges_pmf # NullBuffer /\ SomeWeightPositive(secondary_edge_weighter))
            => REq(secondary_edges_pmf[e], RInt(0))
    /\ (PrimaryTaskRan /\ edge_geom[edge_id].distance = 0 /\ RLt(RInt(0), total_length))
        => PrimaryContributionZero(task)
    /\ (SecondaryTaskReturned /\ edge_id # -1 /\ edge_view[edge_id].length_squared = 0)
        => SecondaryContributionZero(task)
    /\ (SecondaryTaskReturned /\ ~SecondaryContributionZero(task))
        => edge_view[buffers.edge_records[task].edge].length_squared # 0

TaskDone == pc \in {"returned", "updated"}

\* The node the descent has reached after the branches taken so far.
RECURSIVE NodeAfter(_, _)
NodeAfter(nd, branches) ==
    IF branches = <<>> THEN nd
    ELSE NodeAfter(nd.children[Head(branches).child + 1], Tail(branches))

NodeAtPath ==
    NodeAfter(IF path[1].child = 0 THEN edge_tree_roots.cs_bvh_root
              ELSE edge_tree_roots.ncs_bvh_root,
              Tail(path))

\* The number of levels of the tree under a node.
RECURSIVE Height(_)
Height(nd) ==
    IF nd = NullNode THEN 0
    ELSE IF nd.edge_id # -1 THEN 1
    ELSE LET h0 == Height(nd.children[1])
             h1 == Height(nd.children[2])
         IN  1 + (IF h0 < h1 THEN h1 ELSE h0)

\* The two importances the descent compares at its current position can
\* both be <= 0.
BothImportancesNonPositive ==
    IF pc = "sample_edge_roots" THEN
        \E b_cs, b_ncs \in BrdfTerms, d_hit \in DHits(edge_tree_roots.ncs_bvh_root) :
            /\ \/ edge_tree_roots.cs_bvh_root = NullNode
               \/ RLeq(importance(edge_tree_roots.cs_bvh_root, shading_point, b_cs, d_hit), RInt(0))
            /\ \/ edge_tree_roots.ncs_bvh_root = NullNode
               \/ RLeq(importance(edge_tree_roots.ncs_bvh_root, shading_point, b_ncs, d_hit), RInt(0))
    ELSE
        \E b0, b1 \in BrdfTerms, d_hit0, d_hit1 \in DHits(node) :
            /\ RLeq(importance(node.children[1], shading_point, b0, d_hit0), RInt(0))
            /\ RLeq(importance(node.children[2], shading_point, b1, d_hit1), RInt(0))

FirstLoopDone ==
    pass = "secondary" /\ pc \in {"resampled", "resample_pick", "resample_picked"}

SecondLoopDone ==
    \/ pc = "resample_picked"
    \/ pc = "resample_pick" /\ sample_id = M

\* The bounds on the loops of a task, and the position of the descent: the
\* node visited after k branches is the node k levels below the roots.
LoopBounds ==
    /\ trips.solve <= SolveIterations
    /\ it < SolveIterations
    /\ FirstLoopDone => trips.first = M
    /\ trips.second <= M
    /\ (pass = "secondary" /\ pc = "sample_edge_node") =>
        /\ node = NodeAtPath
        /\ Len(path) <= Height(edge_tree_roots.cs_bvh_root)
           \/ Len(path) <= Height(edge_tree_roots.ncs_bvh_root)

TreeHeight ==
    LET h0 == Height(edge_tree_roots.cs_bvh_root)
        h1 == Height(edge_tree_roots.ncs_bvh_root)
    IN  IF h0 < h1 THEN h1 ELSE h0

\* How far the task is from its end: the statements still ahead of it, the
\* loops counted by the iterations they have left.
StepsLeft ==
    CASE pc = "operator" -> 600
      [] pc = "resampled" -> 500
      [] pc = "resample_pick" -> 400 + (M - sample_id)
      [] pc = "resample_picked" -> 400
      [] pc = "sample_edge_roots" -> 500
      [] pc = "sample_edge_node" -> 400 + (TreeHeight - Len(path))
      [] pc = "sampled" -> 300
      [] pc = "selected" -> 200
      [] pc = "solve" -> 100 + 2 * (SolveIterations - it) + 1
      [] pc = "solve_eval" -> 100 + 2 * (SolveIterations - it)
      [] pc = "solved" -> 100
      [] OTHER -> 0

\* A task that has not ended can take its next step.
CanStep ==
    CASE pc = "resample_pick" -> sample_id <= M
      [] pc = "solve" -> it < SolveIterations
      [] pc = "selected" -> edge_id \in DOMAIN edge_view
      [] pc = "sample_edge_node" -> node # NullNode
      [] OTHER -> pc \in {"operator", "resampled", "resample_picked", "sample_edge_roots",
                          "sampled", "solve_eval", "solved"}

\* The descent stops at a leaf, whose edge it returns, or at a position
\* where both importances are <= 0, where it returns -1.
DescentStops ==
    (pass = "secondary" /\ pc \in {"sample_edge_roots", "sample_edge_node"} /\ pc' = "sampled")
    => IF pc = "sample_edge_node" /\ node # NullNode /\ node.edge_id # -1
       THEN sampled_edge_id' = node.edge_id
       ELSE sampled_edge_id' = -1 /\ BothImportancesNonPositive

\* C16 as stated: every task terminates; the root solve runs at most 20
\* iterations; each of the two resampling loops runs exactly 64 iterations;
\* the descent visits one node per level and stops at a leaf or where both
\* importances are <= 0.
C16_ExactlySixtyFourEach ==
    /\ LoopBounds
    /\ SecondLoopDone => trips.second = M

\* C16, corrected: every task terminates (each step brings it nearer to its
\* end, and it can step until it has ended); the root solve runs at most 20
\* iterations; the first resampling loop runs exactly 64 iterations and the
\* second at most 64, ending at the first candidate whose cumulative weight
\* reaches resample_u; the descent visits one node per level and stops at a
\* leaf or where both importances are <= 0.
C16_TaskTerminates ==
    /\ [][StepsLeft' < StepsLeft /\ StepsLeft' >= 0]_vars
    /\ [](~TaskDone => CanStep)
    /\ []LoopBounds
    /\ [](SecondLoopDone =>
            /\ trips.second >= 1
            /\ resample_id # -1 => trips.second = resample_id + 1)
    /\ [][DescentStops]_vars

\* A task that left the second resampling loop before its 64th iteration,
\* after 64 iterations of the first.
C16_Witness ==
    /\ SecondLoopDone
    /\ trips.first = M
    /\ trips.second > 1
    /\ trips.second < M

(***************************************************************************)
(* Properties of the root solve.                                           *)
(***************************************************************************)
InSolve == pc \in {"solve", "solve_eval", "solved"}

\* min(l0, l1) and max(l0, l1) of the selected edge
InitialLow ==
    IF RLt(edge_view[edge_id].l1, edge_view[edge_id].l0)
    THEN edge_view[edge_id].l1 ELSE edge_view[edge_id].l0

InitialHigh ==
    IF RLt(edge_view[edge_id].l1, edge_view[edge_id].l0)
    THEN edge_view[edge_id].l0 ELSE edge_view[edge_id].l1

Within(x, a, b) == RLeq(a, x) /\ RLeq(x, b)

\* C18: in the root solve, whatever the Newton step leaves in l (NaN,
\* infinity and points outside the bracket included), at every iteration
\* lb <= ub, [lb, ub] lies inside [min(l0, l1), max(l0, l1)], the bracket
\* only shrinks, line_cdf is evaluated at an l with lb <= l <= ub, the l the
\* solve ends with has lb <= l <= ub, and, line_cdf being increasing, the
\* solution of line_cdf(l) = t stays inside [lb, ub].
C18_BracketKept ==
    /\ [](InSolve =>
            /\ RLeq(lb, ub)
            /\ RLeq(InitialLow, lb)
            /\ RLeq(ub, InitialHigh)
            /\ Within(solution, lb, ub))
    /\ [](pc \in {"solve_eval", "solved"} => Within(l, lb, ub))
    /\ [][(InSolve /\ InSolve') => (RLeq(lb, lb') /\ RLeq(ub', ub))]_vars

\* A solve in which the Newton step has left a value that is not finite
\* after both ends of the bracket have moved.
C18_Witness ==
    /\ pc = "solve"
    /\ it >= 2
    /\ ~IsFinite(l)
    /\ RLt(InitialLow, lb)
    /\ RLt(ub, InitialHigh)

\* ---------------------------------------------------------------------
\* The two secondary structures after construction (lines 188-228) and the
\* strategy branch of the secondary sampler (line 1043).

\* secondary_edges_pmf and secondary_edges_cdf have been allocated and filled
GlobalSecondaryExists ==
    /\ secondary_edges_pmf # NullBuffer
    /\ secondary_edges_cdf # NullBuffer
    /\ DOMAIN secondary_edges_pmf = EdgeIds
    /\ DOMAIN secondary_edges_cdf = EdgeIds

Constructed == pc = "constructed"

\* C20: after the construction of the EdgeSampler exactly one of the two
\* secondary structures exists: the global secondary PMF/CDF is built if and
\* only if the edge tree is not built, and the branch of the secondary sampler
\* (edges_pmf != nullptr) takes the resampling path if and only if the global
\* secondary PMF exists, the tree descent otherwise.  An edge set without
\* edges owns buffers of size zero, which the model cannot tell from buffers
\* that were never allocated: for it only "never both" is stated.
C20_OneSecondaryStructure ==
    Constructed =>
        /\ edge_tree => ~GlobalSecondaryExists /\ ~takes_resampling_path
        /\ ~(edge_tree /\ secondary_edges_pmf # NullBuffer)
        /\ NumEdges >= 1 =>
            /\ GlobalSecondaryExists <=> ~edge_tree
            /\ takes_resampling_path <=> GlobalSecondaryExists
            /\ takes_resampling_path <=> ~edge_tree

\* a sampler constructed without the tree: the global secondary PMF and CDF
\* of a non-empty edge set are there and the sampler resamples
C20_Witness ==
    /\ Constructed
    /\ NumEdges >= 1
    /\ ~edge_tree
    /\ GlobalSecondaryExists
    /\ takes_resampling_path

\* ---------------------------------------------------------------------
\* The ranges of the edge buffer the collection loop uses (lines 116-153).

\* The collector, the sort and reduce_by_key work on
\* [current_num_edges, current_num_edges + 3 * num_triangles).
InEdgeLoop == pc \in {"sort", "reduce", "copy"} \/ (pc = "collect" /\ shape_id < Len(shapes))

EdgeBufferSize == 3 * num_total_triangles

RangesInBuffer ==
    /\ InEdgeLoop =>
          /\ DOMAIN edges = 0..(EdgeBufferSize - 1)
          /\ DOMAIN edges_buffer = 0..(EdgeBufferSize - 1)
          /\ current_num_edges + 3 * num_triangles(shape_id) <= EdgeBufferSize
    /\ pc = "copy" =>
          /\ num_edges <= 3 * num_triangles(shape_id)
          /\ current_num_edges + num_edges <= EdgeBufferSize
    /\ pc \in {"collect", "edges_done"} => current_num_edges <= EdgeBufferSize
    /\ pc = "edges_done" => edges_count <= EdgeBufferSize

\* a step leaves the merged edges of the earlier shapes as they are
EarlierEdgesKept ==
    \A i \in 0..(current_num_edges - 1) : edges'[i] = edges[i]

\* C29: throughout the construction, before the edges of each shape are
\* collected, current_num_edges + 3 * num_triangles(shape) is at most
\* 3 * num_total_triangles, so the collector, the sort range and the copy back
\* stay inside the edge buffer, no step overwrites the merged edges of an
\* earlier shape, and the final edges.count is at most 3 * num_total_triangles.
C29_LoopStaysInBuffer == []RangesInBuffer /\ [][EarlierEdgesKept]_vars

\* the second of two shapes with triangles is about to be collected behind the
\* merged edges of the first, which are fewer than its 3 * num_triangles slots
C29_Witness ==
    /\ pc = "collect"
    /\ shape_id = 1
    /\ Len(shapes) = 2
    /\ num_triangles(1) >= 1
    /\ current_num_edges >= 1
    /\ current_num_edges < 3 * num_triangles(0)

\* ---------------------------------------------------------------------
\* Candidates of the resampling loop on the triangle of the shading point
\* (lines 1061-1069).

\* The edge lies on the triangle the shading intersection is on.
SharesTriangle(edge, isect) ==
    /\ edge.shape_id = isect.shape_id
    /\ (edge.f0 = isect.tri_id \/ edge.f1 = isect.tri_id)

TaskIsect == shading_isects[active_pixels[task]]

\* Nothing but the triangle test can give candidate e the weight 0.
OtherwiseAccepted(e) ==
    /\ RLt(RInt(0), secondary_edges_pmf[e])
    /\ edge_view[e].is_silhouette
    /\ edge_view[e].length_squared > DegenerateLengthSquared
    /\ (edge_view[e].v0o_z > 0 \/ edge_view[e].v1o_z > 0)
    /\ RLt(RInt(0), edge_view[e].ltc)

\* C21: in the resampling path every candidate edge that shares a triangle
\* with the shading intersection (same shape_id, tri_id equal to the f0 or
\* the f1 of the edge) gets the candidate weight 0, and a candidate that
\* shares no triangle with it is not rejected for that reason.
C21_SameTriangleRejected ==
    (pass = "secondary" /\ DOMAIN edge_ids = 1..M) =>
        \A i \in 1..M :
            /\ SharesTriangle(edge_view[edge_ids[i]].edge, TaskIsect)
                  => REq(edge_weights[i], RInt(0))
            /\ (~SharesTriangle(edge_view[edge_ids[i]].edge, TaskIsect)
                  /\ OtherwiseAccepted(edge_ids[i]))
                  => RLt(RInt(0), edge_weights[i])

\* What the loop does: the candidates it rejects are those with a vertex
\* index equal to the triangle index of the intersection.
C21_RejectedByVertexIndex ==
    (pass = "secondary" /\ DOMAIN edge_ids = 1..M) =>
        \A i \in 1..M :
            /\ same_tri(edge_view[edge_ids[i]].edge, TaskIsect)
                  => REq(edge_weights[i], RInt(0))
            /\ (~same_tri(edge_view[edge_ids[i]].edge, TaskIsect)
                  /\ OtherwiseAccepted(edge_ids[i]))
                  => RLt(RInt(0), edge_weights[i])

\* ---------------------------------------------------------------------
\* The pick of the resampling path (lines 1103-1127).

\* edge_weights and resample_cdf are filled.
ResampleArraysLive == pass = "secondary" /\ DOMAIN resample_cdf = 1..M

\* resample_id is about to index edge_weights and edge_ids.
PickEnded ==
    \/ pc = "resample_picked"
    \/ pc = "resample_pick" /\ sample_id = M

RunningSum ==
    ResampleArraysLive =>
        \A i \in 1..M :
            /\ RLeq(RInt(0), edge_weights[i])
            /\ i = 1 => REq(resample_cdf[i], edge_weights[i])
            /\ i > 1 =>
                  /\ REq(resample_cdf[i], RAdd(resample_cdf[i - 1], edge_weights[i]))
                  /\ RLeq(resample_cdf[i - 1], resample_cdf[i])

SmallestIndexPicked ==
    PickEnded =>
        LET u == RMul(samples[task].resample_sel, resample_cdf[M])
        IN  /\ resample_id \in 0..(M - 1)
            /\ RLeq(u, resample_cdf[resample_id + 1])
            /\ \A j \in 0..(resample_id - 1) : ~RLeq(u, resample_cdf[j + 1])

PickStep ==
    /\ (pc = "resampled" /\ RLeq(resample_cdf[M], RInt(0)))
          => (pc' = "returned" /\ SecondaryZeroContribution(task)')
    /\ (pc = "resampled" /\ ~RLeq(resample_cdf[M], RInt(0)))
          => pc' = "resample_pick"
    /\ PickEnded =>
          IF RLt(RInt(0), edge_weights[resample_id + 1])
          THEN pc' = "selected" /\ edge_id' = edge_ids[resample_id + 1]
          ELSE pc' = "returned" /\ SecondaryZeroContribution(task)'

\* C22: in the resampling path with resample_sel in [0, 1], resample_cdf is
\* the non-decreasing running sum of the 64 non-negative candidate weights;
\* if its last entry is <= 0 the sample contributes nothing; otherwise the
\* chosen resample_id is the smallest index with
\* resample_sel * total <= resample_cdf[resample_id], it lies in [0, 63]
\* wherever it is used as an array index, and the sample goes on only when
\* the weight of the chosen candidate is strictly positive.
C22_ResamplePick ==
    /\ [](RunningSum /\ SmallestIndexPicked)
    /\ [][PickStep]_vars

\* a pick behind candidates of weight 0: the loop has passed at least one
\* index and stopped at a candidate of positive weight
C22_Witness ==
    /\ pc = "resample_picked"
    /\ resample_id >= 1
    /\ RLt(RInt(0), edge_weights[resample_id + 1])
    /\ \E i \in 1..M : REq(edge_weights[i], RInt(0))

(***************************************************************************)
(* The clipping of an edge to the tangent plane of the shading point, on   *)
(* its own (lines 1150-1165, and 1075-1085 in the resampling loop).        *)
(***************************************************************************)
ClipRange == 2

\* The local endpoints m_inv * (v - shading_point.position).
LocalPoints ==
    { <<x, y, z>> : x \in (-ClipRange)..ClipRange, y \in (-ClipRange)..ClipRange,
                    z \in (-ClipRange)..ClipRange }

RVec(v) == [k \in 1..3 |-> RInt(v[k])]

\* Mutation: the two products are added.
clip_to_plane_added(v0o, v1o) ==
    [k \in 1..3 |-> RDiv(RAdd(RMul(v0o[k], v1o[3]), RMul(v1o[k], v0o[3])),
                         RSub(v1o[3], v0o[3]))]

\* (v0o*v1o[2] - v1o*v0o[2]) / (v1o[2] - v0o[2])
clip_to_plane(v0o, v1o) ==
    [k \in 1..3 |-> RDiv(RSub(RMul(v0o[k], v1o[3]), RMul(v1o[k], v0o[3])),
                         RSub(v1o[3], v0o[3]))]

InitClip ==
    /\ pc = "transformed"
    /\ \E a, b \in LocalPoints :
          locals = [v0o |-> RVec(a), v1o |-> RVec(b), transformed |-> <<RVec(a), RVec(b)>>]
    /\ EdgeIdle
    /\ DistIdle
    /\ PassIdle

\* if (v0o[2] <= 0.f && v1o[2] <= 0.f) return;
\* if (v0o[2] < 0.f) v0o = ...; if (v1o[2] < 0.f) v1o = ...;
ClipToTangentPlane ==
    /\ pc = "transformed"
    /\ IF RLeq(locals.v0o[3], RInt(0)) /\ RLeq(locals.v1o[3], RInt(0)) THEN
            /\ pc' = "below"
            /\ UNCHANGED locals
       ELSE LET first == IF RLt(locals.v0o[3], RInt(0))
                         THEN clip_to_plane(locals.v0o, locals.v1o)
                         ELSE locals.v0o
                second == IF RLt(locals.v1o[3], RInt(0))
                          THEN clip_to_plane(first, locals.v1o)
                          ELSE locals.v1o
            IN  /\ locals' = [locals EXCEPT !.v0o = first, !.v1o = second]
                /\ pc' = "clipped"
    /\ UNCHANGED <<edgeVars, distVars, passVars>>

NextClip == ClipToTangentPlane

SpecClip == InitClip /\ [][NextClip]_vars

RVSub(a, b) == [k \in 1..3 |-> RSub(a[k], b[k])]
RDot(a, b) == RAdd(RAdd(RMul(a[1], b[1]), RMul(a[2], b[2])), RMul(a[3], b[3]))
RCross(a, b) ==
    << RSub(RMul(a[2], b[3]), RMul(a[3], b[2])),
       RSub(RMul(a[3], b[1]), RMul(a[1], b[3])),
       RSub(RMul(a[1], b[2]), RMul(a[2], b[1])) >>

\* p lies on the segment from a to b
OnSegment(p, a, b) ==
    /\ \A k \in 1..3 : REq(RCross(RVSub(p, a), RVSub(b, a))[k], RInt(0))
    /\ RLeq(RInt(0), RDot(RVSub(p, a), RVSub(b, a)))
    /\ RLeq(RDot(RVSub(p, a), RVSub(b, a)), RDot(RVSub(b, a), RVSub(b, a)))

Moved(now, before) == \E k \in 1..3 : ~REq(now[k], before[k])

\* C23: the clipping step of the secondary sampler is reached only when at
\* least one local endpoint has z > 0; after it at most one endpoint has been
\* moved, both local endpoints have z >= 0, and a moved endpoint has z = 0
\* and lies on the segment between the two original endpoints.
C23_ClippedToPlane ==
    pc = "clipped" =>
        LET a == locals.transformed[1]
            b == locals.transformed[2]
        IN  /\ RLt(RInt(0), a[3]) \/ RLt(RInt(0), b[3])
            /\ ~(Moved(locals.v0o, a) /\ Moved(locals.v1o, b))
            /\ RLeq(RInt(0), locals.v0o[3]) /\ RLeq(RInt(0), locals.v1o[3])
            /\ Moved(locals.v0o, a) =>
                  REq(locals.v0o[3], RInt(0)) /\ OnSegment(locals.v0o, a, b)
            /\ Moved(locals.v1o, b) =>
                  REq(locals.v1o[3], RInt(0)) /\ OnSegment(locals.v1o, a, b)

\* the second endpoint was below the plane and has been moved onto it, to a
\* point that is neither of the two original endpoints
C23_Witness ==
    /\ pc = "clipped"
    /\ RLt(locals.transformed[2][3], RInt(0))
    /\ Moved(locals.v1o, locals.transformed[2])
    /\ Moved(locals.v1o, locals.transformed[1])
    /\ REq(locals.v1o[3], RInt(0))

(***************************************************************************)
(* The choice of the BRDF lobe in the secondary sampler, on its own        *)
(* (lines 1008-1038), and the division by its pmf (line 1286).             *)
(***************************************************************************)
MaxLobeWeight == 3

\* luminance(get_diffuse_reflectance(...)), luminance(get_specular_reflectance(...))
LobeWeights == { RInt(w) : w \in 0..MaxLobeWeight }

InitLobe ==
    /\ pc = "material"
    /\ \E dw, sw \in LobeWeights, u \in Samples :
          locals = [diffuse_weight |-> dw, specular_weight |-> sw,
                    bsdf_component |-> u]
    /\ EdgeIdle
    /\ DistIdle
    /\ PassIdle

\* if (edge_sample.bsdf_component <= diffuse_pmf)
takes_diffuse(bsdf_component, diffuse_pmf) == RLeq(bsdf_component, diffuse_pmf)

\* weight_sum, the black material test, diffuse_pmf, specular_pmf, m_pmf
LobeSelection ==
    /\ pc = "material"
    /\ LET weight_sum == RAdd(locals.diffuse_weight, locals.specular_weight)
           diffuse_pmf == RDiv(locals.diffuse_weight, weight_sum)
           specular_pmf == RDiv(locals.specular_weight, weight_sum)
       IN  IF RLeq(weight_sum, RInt(0)) THEN
                /\ pc' = "black"
                /\ UNCHANGED locals
           ELSE /\ locals' =
                    [diffuse_weight |-> locals.diffuse_weight,
                     specular_weight |-> locals.specular_weight,
                     bsdf_component |-> locals.bsdf_component,
                     diffuse_pmf |-> diffuse_pmf,
                     specular_pmf |-> specular_pmf,
                     m_pmf |-> IF takes_diffuse(locals.bsdf_component, diffuse_pmf)
                               THEN diffuse_pmf ELSE specular_pmf]
                /\ pc' = "lobe"
    /\ UNCHANGED <<edgeVars, distVars, passVars>>

\* auto edge_weight = edge_sample_weight / (m_pmf * line_pdf(l)), for a
\* selection of weight 1 and a positive line_pdf(l)
LobeEdgeWeight ==
    /\ pc = "lobe"
    /\ \E pdf \in { p \in LinePdfs : RLt(RInt(0), p) } \cup { RInt(1) } :
          locals' = [diffuse_weight |-> locals.diffuse_weight,
                     specular_weight |-> locals.specular_weight,
                     bsdf_component |-> locals.bsdf_component,
                     diffuse_pmf |-> locals.diffuse_pmf,
                     specular_pmf |-> locals.specular_pmf,
                     m_pmf |-> locals.m_pmf,
                     edge_weight |-> RDiv(RInt(1), RMul(locals.m_pmf, pdf))]
    /\ pc' = "weighted"
    /\ UNCHANGED <<edgeVars, distVars, passVars>>

NextLobe == LobeSelection \/ LobeEdgeWeight

SpecLobe == InitLobe /\ [][NextLobe]_vars

LobeChosen == pc \in {"lobe", "weighted"}

\* C27: in the secondary sampler, for every bsdf_component in [0, 1) and
\* every material with diffuse_weight + specular_weight > 0,
\* diffuse_pmf + specular_pmf = 1 and the pmf of the lobe selected (m_pmf) is
\* strictly positive, so the final division by m_pmf is never a division by
\* zero.
C27_LobePmfPositive ==
    /\ LobeChosen =>
          /\ REq(RAdd(locals.diffuse_pmf, locals.specular_pmf), RInt(1))
          /\ RLt(RInt(0), locals.m_pmf)
    /\ pc = "weighted" => IsFinite(locals.edge_weight)

\* The same for the tasks with bsdf_component > 0 or a material with a
\* diffuse part.
C27_LobePmfPositiveOffZero ==
    /\ LobeChosen =>
          /\ REq(RAdd(locals.diffuse_pmf, locals.specular_pmf), RInt(1))
          /\ (RLt(RInt(0), locals.bsdf_component) \/ RLt(RInt(0), locals.diffuse_weight))
                => RLt(RInt(0), locals.m_pmf)
    /\ pc = "weighted" =>
          ((RLt(RInt(0), locals.bsdf_component) \/ RLt(RInt(0), locals.diffuse_weight))
                => IsFinite(locals.edge_weight))

(***************************************************************************)
(* The pixel of d_rendered_image read by the primary sampler, on its own   *)
(* (lines 268-296 for the non-fisheye branch, 341-378 for the fisheye      *)
(* branch).                                                                *)
(***************************************************************************)
ScreenDen == 4
MaxWidth == 3

\* edge_pt: screen coordinates in steps of 1/ScreenDen, one step outside
\* [0, 1] on either side included
ScreenCoords == { RNorm(k, ScreenDen) : k \in -1..(ScreenDen + 1) }

\* int(x): conversion of a floating point value to int, towards zero
int_of(x) == IF x.n >= 0 THEN x.n \div x.d ELSE -((-x.n) \div x.d)

\* in_screen(camera, edge_pt): screen coordinates in [0, 1] on both axes
in_screen(edge_pt) ==
    /\ RLeq(RInt(0), edge_pt[1]) /\ RLeq(edge_pt[1], RInt(1))
    /\ RLeq(RInt(0), edge_pt[2]) /\ RLeq(edge_pt[2], RInt(1))

\* auto xi = ..., auto yi = ... of the two branches
pixel_index(fisheye, coord, size) ==
    IF ~fisheye THEN clamp(int_of(RMul(coord, RInt(size))), 0, size - 1)
    ELSE int_of(RMul(coord, RInt(size)))

InitPixel ==
    /\ pc = "edge_pt"
    /\ \E fisheye \in BOOLEAN, width, height \in 1..MaxWidth,
          x, y \in ScreenCoords :
          locals = [fisheye |-> fisheye, width |-> width, height |-> height,
                    edge_pt |-> <<x, y>>]
    /\ EdgeIdle
    /\ DistIdle
    /\ PassIdle

\* if (!in_screen(camera, edge_pt)) return;
InScreenTest ==
    /\ pc = "edge_pt"
    /\ pc' = IF in_screen(locals.edge_pt) THEN "accepted" ELSE "rejected"
    /\ UNCHANGED locals
    /\ UNCHANGED <<edgeVars, distVars, passVars>>

\* xi, yi and the first index nd * (yi * camera.width + xi) + rd of d_color,
\* for nd = 1 and rd = 0
PixelIndex ==
    /\ pc = "accepted"
    /\ LET xi == pixel_index(locals.fisheye, locals.edge_pt[1], locals.width)
           yi == pixel_index(locals.fisheye, locals.edge_pt[2], locals.height)
       IN  locals' = [fisheye |-> locals.fisheye, width |-> locals.width,
                      height |-> locals.height, edge_pt |-> locals.edge_pt,
                      xi |-> xi, yi |-> yi,
                      index |-> yi * locals.width + xi]
    /\ pc' = "indexed"
    /\ UNCHANGED <<edgeVars, distVars, passVars>>

NextPixel == InScreenTest \/ PixelIndex

SpecPixel == InitPixel /\ [][NextPixel]_vars

PixelInImage ==
    /\ 0 <= locals.xi /\ locals.xi <= locals.width - 1
    /\ 0 <= locals.yi /\ locals.yi <= locals.height - 1

\* C28: in the primary sampler, for both the non-fisheye and the fisheye
\* branch, the pixel coordinates (xi, yi) used to index d_rendered_image
\* satisfy 0 <= xi <= width - 1 and 0 <= yi <= height - 1 for every edge
\* point accepted by the in-screen test.
C28_PixelInImage == pc = "indexed" => PixelInImage

\* The same for the non-fisheye branch and, in the fisheye branch, for the
\* edge points with both screen coordinates below 1.
C28_PixelInImageBelowOne ==
    (/\ pc = "indexed"
     /\ \/ ~locals.fisheye
        \/ RLt(locals.edge_pt[1], RInt(1)) /\ RLt(locals.edge_pt[2], RInt(1)))
        => /\ PixelInImage
           /\ locals.index \in 0..(locals.width * locals.height - 1)

(***************************************************************************)
(* The primary sampler and the silhouette test of the weighter.            *)
(***************************************************************************)
PrimaryTaskDone == pass = "primary" /\ pc \in {"sampled", "updated"}

\* Task idx has left a contribution: a valid edge record, a non-null ray or
\* a non-zero throughput or channel multiplier.
PrimaryContribution(idx) == ~PrimaryZeroContribution(idx)

SomePrimaryWeight ==
    \E e \in DOMAIN edge_geom : RLt(RInt(0), primary_edge_weighter(edge_geom[e]))

\* C26: the primary sampler emits a non-zero contribution only for an edge
\* that is a silhouette from the camera origin: whenever at least one edge
\* has positive primary weight, a task that selected an edge that is not a
\* silhouette leaves the zero-contribution record, and the record of a task
\* with a contribution names a silhouette edge.
C26_OnlySilhouettesEmitted ==
    (PrimaryTaskDone /\ SomePrimaryWeight) =>
        /\ ~edge_geom[edge_id].is_silhouette => PrimaryZeroContribution(task)
        /\ PrimaryContribution(task) =>
              /\ buffers.edge_records[task].edge = edge_id
              /\ edge_geom[edge_id].is_silhouette
              /\ RLt(RInt(0), primary_edges_pmf[edge_id])

\* a scene with an edge that is not a silhouette but projects into the
\* screen, and a task with a non-zero throughput for another edge
C26_Witness ==
    /\ PrimaryTaskDone
    /\ SomePrimaryWeight
    /\ \E e \in DOMAIN edge_geom :
          /\ ~edge_geom[e].is_silhouette
          /\ edge_geom[e].project /\ edge_geom[e].clip_line
          /\ edge_geom[e].distance_ss > 0
    /\ buffers.edge_records[task].edge = edge_id
    /\ edge_id # -1
    /\ ~REq(buffers.throughputs[2 * task], RInt(0))

(***************************************************************************)
(* The ray differentials of a task that returns early.                     *)
(***************************************************************************)
\* primary_ray_differentials[idx], bsdf_differentials[2 * idx] and
\* bsdf_differentials[2 * idx + 1]
DifferentialSlots(B, idx) ==
    <<B.primary_ray_differentials[idx],
      B.bsdf_differentials[2 * idx], B.bsdf_differentials[2 * idx + 1]>>

\* the task has ended
TaskOver ==
    \/ pass = "primary" /\ pc \in {"sampled", "updated"}
    \/ pass = "secondary" /\ pc = "returned"

\* the task has ended on an early return
EarlyReturned == TaskOver /\ cause # "none"

\* the edge record of the task is a valid one
ValidRecord(B, idx) == B.edge_records[idx].edge # -1

DifferentialsKept ==
    EarlyReturned =>
        DifferentialSlots(buffers, task) =
            DifferentialSlots(PreviousOutput(NumTasks, num_total_dimensions), task)

DifferentialsStoredOnEmit ==
    DifferentialSlots(buffers', task) # DifferentialSlots(buffers, task)
        => /\ TaskOver'
           /\ cause' = "none"
           /\ ValidRecord(buffers', task)

\* C30: on every early-return path, sample_primary_edges leaves
\* primary_ray_differentials[idx] unchanged and sample_secondary_edges leaves
\* bsdf_differentials[2*idx] and bsdf_differentials[2*idx+1] unchanged (the
\* previous contents are kept, not zeroed); these slots are written only on
\* the path that emits a valid edge record.
C30_DifferentialsKeptOnReturn ==
    []DifferentialsKept /\ [][DifferentialsStoredOnEmit]_vars

\* a secondary task that returned after an edge was selected (the line pdf
\* or the BSDF test), with the differentials of the pass before in its slots
C30_Witness ==
    /\ pass = "secondary"
    /\ pc = "returned"
    /\ cause \in {"line_pdf", "bsdf"}
    /\ edge_id # -1
    /\ buffers.edge_records[task] = [edge |-> -1, edge_pt |-> RInt(0)]
    /\ buffers.bsdf_differentials[2 * task] = <<"RayDifferential", -1>>
    /\ buffers.bsdf_differentials[2 * task + 1] = <<"RayDifferential", -1>>

(***************************************************************************)
(* update_secondary_edge_weights (lines 1398-1479): the parallel_for over  *)
(* secondary_edge_weights_updater, one task a step, in any order.          *)
(***************************************************************************)
\* if (dist_sq < 1e-8f): likely a self-intersection
SelfIntersectionDistanceSquared == RNorm(1, 100000000)

\* What the probe ray of a slot hit: edge_isect.valid() and, for a hit,
\* length_squared(edge_surface_point.position - shading_point.position)
ProbeHit(valid, dist_sq) == [valid |-> valid, dist_sq |-> dist_sq]
ProbeMiss == ProbeHit(FALSE, RInt(0))

\* The two probe rays of a task: a miss, hits on either side of the
\* self-intersection distance and a hit exactly at it.
ProbePairs ==
    { <<ProbeHit(TRUE, RNorm(1, 1000000000)), ProbeMiss>>,
      <<ProbeMiss, ProbeHit(TRUE, RInt(1))>>,
      <<ProbeHit(TRUE, RInt(1)), ProbeHit(TRUE, RInt(0))>>,
      <<ProbeHit(TRUE, SelfIntersectionDistanceSquared), ProbeHit(TRUE, RInt(1))>>,
      <<ProbeMiss, ProbeMiss>> }

\* geometry_term * w of a surface hit, w of an environment hit
ThroughputFactors == { RInt(2), RNorm(1, 3) }

\* Mutation: update_throughput without the self-intersection test.
update_throughput_no_self_test(edge_isect, envmap, factor, edge_throughput) ==
    IF edge_isect.valid THEN RMul(edge_throughput, factor)
    ELSE IF envmap THEN RMul(edge_throughput, factor)
    ELSE edge_throughput

\* update_throughput: the value it leaves in edge_throughput
update_throughput(edge_isect, envmap, factor, edge_throughput) ==
    IF edge_isect.valid THEN
        IF RLt(edge_isect.dist_sq, SelfIntersectionDistanceSquared) THEN RInt(0)
        ELSE RMul(edge_throughput, factor)
    ELSE IF envmap THEN RMul(edge_throughput, factor)
    ELSE edge_throughput

InitUpdate ==
    /\ pc = "update_weights"
    /\ \E shape_ids \in [Tasks -> {-1, 0}], isects \in [Tasks -> ProbePairs],
          envmap \in BOOLEAN, factor \in ThroughputFactors :
          locals = [edge_shape_id |-> shape_ids,
                    edge_isects |-> [i \in 0..(2 * NumTasks - 1) |->
                                        isects[i \div 2][(i % 2) + 1]],
                    envmap |-> envmap,
                    factor |-> factor,
                    edge_throughputs |-> [i \in 0..(2 * NumTasks - 1) |-> RInt(3 + i)],
                    idx |-> -1,
                    done |-> {}]
    /\ EdgeIdle
    /\ DistIdle
    /\ PassIdle

\* secondary_edge_weights_updater::operator()(idx), for a task of the
\* parallel_for that has not run yet
secondary_edge_weights_updater ==
    /\ pc = "update_weights"
    /\ \E idx \in Tasks \ locals.done :
        LET updated(k) == update_throughput(locals.edge_isects[2 * idx + k],
                                            locals.envmap, locals.factor,
                                            locals.edge_throughputs[2 * idx + k])
            edge_throughputs ==
                IF locals.edge_shape_id[idx] < 0 THEN locals.edge_throughputs
                ELSE [i \in DOMAIN locals.edge_throughputs |->
                        IF i = 2 * idx + 0 THEN updated(0)
                        ELSE IF i = 2 * idx + 1 THEN updated(1)
                        ELSE locals.edge_throughputs[i]]
        IN  /\ locals' = [locals EXCEPT !.edge_throughputs = edge_throughputs,
                                        !.idx = idx,
                                        !.done = @ \cup {idx}]
            /\ pc' = IF locals.done \cup {idx} = Tasks
                     THEN "weights_updated" ELSE "update_weights"
    /\ UNCHANGED <<edgeVars, distVars, passVars>>

NextUpdate == secondary_edge_weights_updater

SpecUpdate == InitUpdate /\ [][NextUpdate]_vars

UpdaterRuns == pc = "update_weights" /\ pc' \in {"update_weights", "weights_updated"}

\* the throughput of slot i is the same after the step
ThroughputKept(i) == locals'.edge_throughputs[i] = locals.edge_throughputs[i]

UpdaterStep ==
    UpdaterRuns =>
        LET idx == locals'.idx
        IN  /\ \A i \in DOMAIN locals.edge_throughputs :
                i \notin {2 * idx, 2 * idx + 1} => ThroughputKept(i)
            /\ locals.edge_shape_id[idx] < 0 =>
                ThroughputKept(2 * idx) /\ ThroughputKept(2 * idx + 1)
            /\ \A i \in {2 * idx, 2 * idx + 1} :
                /\ (~locals.edge_isects[i].valid /\ ~locals.envmap) => ThroughputKept(i)
                /\ (/\ locals.edge_shape_id[idx] >= 0
                    /\ locals.edge_isects[i].valid
                    /\ RLt(locals.edge_isects[i].dist_sq, SelfIntersectionDistanceSquared))
                        => locals'.edge_throughputs[i] = RInt(0)

\* C24: update_secondary_edge_weights leaves both throughputs of a task
\* unchanged when its edge record is invalid (edge.shape_id < 0), leaves a
\* throughput unchanged when its probe ray hit nothing and the scene has no
\* environment map, and sets a throughput to exactly zero when its probe ray
\* hit a surface at squared distance below 1e-8 from the shading point; it
\* never modifies the throughputs of another task.
C24_UpdaterEffect == [][UpdaterStep]_vars

\* every task has run: task 0, with a valid record, had a probe hit closer
\* than the self-intersection distance (throughput zero) and a miss without
\* environment map (throughput kept); task 1, with an invalid record and two
\* hits, kept both throughputs
C24_Witness ==
    /\ pc = "weights_updated"
    /\ ~locals.envmap
    /\ locals.edge_shape_id[0] >= 0
    /\ locals.edge_isects[0].valid
    /\ RLt(locals.edge_isects[0].dist_sq, SelfIntersectionDistanceSquared)
    /\ locals.edge_throughputs[0] = RInt(0)
    /\ ~locals.edge_isects[1].valid
    /\ locals.edge_throughputs[1] = RInt(4)
    /\ locals.edge_shape_id[1] < 0
    /\ locals.edge_isects[2].valid /\ locals.edge_isects[3].valid
    /\ locals.edge_throughputs[2] = RInt(5)
    /\ locals.edge_throughputs[3] = RInt(6)

(***************************************************************************)
(* The two derivative passes, one task a step, in any order:               *)
(* primary_edge_derivatives_computer (lines 527-597) and                   *)
(* secondary_edge_derivatives_accumulator (lines 1509-1556).               *)
(***************************************************************************)
\* The edge of an edge record: the default record (no edge) and two edges
\* of different shapes.
RecordEdges == { NoEdge, Edge(0, 2, 3, 4, 5), Edge(1, 0, 1, 1, -1) }

\* DVertex with its fields
DVertex(sid, vid, d_v) == [shape_id |-> sid, vertex_id |-> vid, d_v |-> d_v]

\* DCameraInst{}, and what d_project adds to it
DCameraDefault == [d_cam |-> 0]

\* What the output slots hold from the pass before.
StaleDVertex == DVertex(7, 7, 7)
StaleDCamera == [d_cam |-> 7]

\* The outputs of primary_edge_derivatives_computer::operator() for a
\* record: d_v0, d_v1, d_camera; gradient stands for the derivatives
\* d_project propagates per unit of edge_contrib.
primary_edge_derivatives(edge, projects, contribs, gradient) ==
    LET edge_contrib == contribs[1] + contribs[2]
    IN  IF edge.shape_id < 0 THEN
            [d_v0 |-> DVertexDefault, d_v1 |-> DVertexDefault,
             d_camera |-> DCameraDefault]
        ELSE IF ~projects THEN
            [d_v0 |-> DVertex(edge.shape_id, edge.v0, 0),
             d_v1 |-> DVertex(edge.shape_id, edge.v1, 0),
             d_camera |-> DCameraDefault]
        ELSE
            [d_v0 |-> DVertex(edge.shape_id, edge.v0, gradient * edge_contrib),
             d_v1 |-> DVertex(edge.shape_id, edge.v1, -gradient * edge_contrib),
             d_camera |-> [d_cam |-> gradient * edge_contrib]]

\* Mutation: the accumulator tags both entries with edge.v0.
secondary_edge_derivatives_one_vertex(edge, contribs, gradient, d_point) ==
    LET dcolor == gradient * (grad(contribs[1]) + grad(contribs[2]))
    IN  IF edge.shape_id < 0 THEN
            [d_v0 |-> DVertexDefault, d_v1 |-> DVertexDefault, d_point |-> d_point]
        ELSE
            [d_v0 |-> DVertex(edge.shape_id, edge.v0, dcolor),
             d_v1 |-> DVertex(edge.shape_id, edge.v0, -dcolor),
             d_point |-> d_point + dcolor]

\* The outputs of secondary_edge_derivatives_accumulator::operator() for a
\* record: d_vertices[2 * idx], d_vertices[2 * idx + 1] and
\* d_points[pixel_id].position
secondary_edge_derivatives(edge, contribs, gradient, d_point) ==
    LET dcolor == gradient * (grad(contribs[1]) + grad(contribs[2]))
    IN  IF edge.shape_id < 0 THEN
            [d_v0 |-> DVertexDefault, d_v1 |-> DVertexDefault, d_point |-> d_point]
        ELSE
            [d_v0 |-> DVertex(edge.shape_id, edge.v0, dcolor),
             d_v1 |-> DVertex(edge.shape_id, edge.v1, -dcolor),
             d_point |-> d_point + dcolor]

InitDeriv ==
    /\ pc \in {"primary_derivatives", "secondary_derivatives"}
    /\ \E records \in [Tasks -> RecordEdges], contribs \in ContribPool,
          projects \in BOOLEAN, gradient \in {1, -2},
          pixels \in {[idx \in Tasks |-> idx], [idx \in Tasks |-> 0]} :
          locals = [edge_records |-> records,
                    edge_contribs |-> contribs,
                    projects |-> projects,
                    gradient |-> gradient,
                    active_pixels |-> pixels,
                    d_vertices |-> [i \in 0..(2 * NumTasks - 1) |-> StaleDVertex],
                    d_cameras |-> [idx \in Tasks |-> StaleDCamera],
                    d_points |-> [px \in Pixels |-> 5],
                    idx |-> -1,
                    done |-> {}]
    /\ EdgeIdle
    /\ DistIdle
    /\ PassIdle

\* primary_edge_derivatives_computer::operator()(idx), for a task of the
\* parallel_for that has not run yet
primary_edge_derivatives_computer ==
    /\ pc = "primary_derivatives"
    /\ \E idx \in Tasks \ locals.done :
        LET out == primary_edge_derivatives(locals.edge_records[idx], locals.projects,
                                            locals.edge_contribs, locals.gradient)
        IN  /\ locals' = [locals EXCEPT
                            !.d_vertices = [@ EXCEPT ![2 * idx + 0] = out.d_v0,
                                                     ![2 * idx + 1] = out.d_v1],
                            !.d_cameras = [@ EXCEPT ![idx] = out.d_camera],
                            !.idx = idx,
                            !.done = @ \cup {idx}]
            /\ pc' = IF locals.done \cup {idx} = Tasks
                     THEN "derivatives_done" ELSE pc
    /\ UNCHANGED <<edgeVars, distVars, passVars>>

\* secondary_edge_derivatives_accumulator::operator()(idx), for a task of
\* the parallel_for that has not run yet
secondary_edge_derivatives_accumulator ==
    /\ pc = "secondary_derivatives"
    /\ \E idx \in Tasks \ locals.done :
        LET pixel_id == locals.active_pixels[idx]
            out == secondary_edge_derivatives(locals.edge_records[idx],
                                              locals.edge_contribs, locals.gradient,
                                              locals.d_points[pixel_id])
        IN  /\ locals' = [locals EXCEPT
                            !.d_vertices = [@ EXCEPT ![2 * idx + 0] = out.d_v0,
                                                     ![2 * idx + 1] = out.d_v1],
                            !.d_points = [@ EXCEPT ![pixel_id] = out.d_point],
                            !.idx = idx,
                            !.done = @ \cup {idx}]
            /\ pc' = IF locals.done \cup {idx} = Tasks
                     THEN "derivatives_done" ELSE pc
    /\ UNCHANGED <<edgeVars, distVars, passVars>>

NextDeriv ==
    \/ primary_edge_derivatives_computer
    \/ secondary_edge_derivatives_accumulator

SpecDeriv == InitDeriv /\ [][NextDeriv]_vars

DerivativeTaskRuns ==
    /\ pc \in {"primary_derivatives", "secondary_derivatives"}
    /\ locals'.done # locals.done

DerivativeStep ==
    DerivativeTaskRuns =>
        LET idx == locals'.idx
            edge == locals.edge_records[idx]
            d_v0 == locals'.d_vertices[2 * idx]
            d_v1 == locals'.d_vertices[2 * idx + 1]
        IN  IF edge.shape_id < 0 THEN
                /\ d_v0 = DVertexDefault
                /\ d_v1 = DVertexDefault
                /\ d_v0.d_v = 0 /\ d_v1.d_v = 0
                /\ pc = "primary_derivatives" => locals'.d_cameras[idx] = DCameraDefault
                /\ pc = "secondary_derivatives" => locals'.d_points = locals.d_points
            ELSE
                /\ d_v0.shape_id = edge.shape_id /\ d_v0.vertex_id = edge.v0
                /\ d_v1.shape_id = edge.shape_id /\ d_v1.vertex_id = edge.v1

\* C25: in both derivative passes, a task whose edge record is invalid
\* (edge.shape_id < 0) outputs default (zero-gradient) vertex entries at
\* d_vertices[2*idx] and d_vertices[2*idx+1], a default camera entry
\* (primary) and leaves d_points unchanged (secondary); a task with a valid
\* record tags d_vertices[2*idx] with (edge.shape_id, edge.v0) and
\* d_vertices[2*idx+1] with (edge.shape_id, edge.v1).
C25_DerivativeEntries == [][DerivativeStep]_vars

\* the secondary pass is over: task 0, with an invalid record, left default
\* entries in place of the stale ones, and task 1, with the edge (2, 3) of
\* shape 0 and a non-zero contribution, tagged its two entries and added to
\* d_points of the pixel both tasks share
C25_Witness ==
    /\ pc = "derivatives_done"
    /\ locals.edge_records[0] = NoEdge
    /\ locals.d_vertices[0] = DVertexDefault
    /\ locals.d_vertices[1] = DVertexDefault
    /\ locals.edge_records[1] = Edge(0, 2, 3, 4, 5)
    /\ locals.active_pixels[1] = 0
    /\ locals.d_points[0] # 5
    /\ locals.d_vertices[2].shape_id = 0 /\ locals.d_vertices[2].vertex_id = 2
    /\ locals.d_vertices[3].shape_id = 0 /\ locals.d_vertices[3].vertex_id = 3
    /\ locals.d_vertices[3].d_v # 0

====
